---- MODULE Spec2Model ----
(***************************************************************************)
(* Quote acquisition layer of the trading backend: the TTL cache, the      *)
(* Finnhub service, the multi-source MarketDataService.getCurrentPrice     *)
(* chain (Finnhub, Twelve Data, Alpha Vantage, synthetic fallback),        *)
(* getAllPrices, the earlier Alpha-Vantage-only getCurrentPrice, and the   *)
(* analysis request handlers that sit in front of them.                    *)
(*                                                                         *)
(* Numbers.  A JavaScript number is a record [k, v]: k = "fin" with v the  *)
(* value in units of 1e-5, or k = "nan" / "inf" / "ninf".  Math.random()   *)
(* is a draw in thousandths from RandomDraws.  Date.now() is `now`, in ms. *)
(***************************************************************************)
EXTENDS Integers, Sequences, FiniteSets, TLC

\* ------------------------------------------------------------ bounds
MaxTicks == 3         \* seconds the clock may advance
MaxCalls == 2         \* getCurrentPrice invocations by outside callers
MaxReads == 3         \* lookups of the cache exercise
MaxOutage == 3        \* instruments, besides the asked one, whose upstreams are down
MaxConfidence == 5    \* the greatest confidence a compared analysis carries

\* ------------------------------------------------------------ numbers
Fin(i) == [k |-> "fin", v |-> i]
NaN == [k |-> "nan", v |-> 0]
PosInf == [k |-> "inf", v |-> 0]
NegInf == [k |-> "ninf", v |-> 0]
Undefined == [k |-> "undef", v |-> 0]

\* isFinite(x), isNaN(x), x > 0
IsFiniteNum(x) == x.k = "fin"
IsNaNNum(x) == x.k \in {"nan", "undef"}
GtZero(x) == (x.k = "fin" /\ x.v > 0) \/ x.k = "inf"
\* JavaScript truthiness of a number-or-undefined: 0, NaN and undefined are falsy
Truthy(x) == ~(x.k \in {"undef", "nan"}) /\ ~(x.k = "fin" /\ x.v = 0)
\* a || b
OrElse(a, b) == IF Truthy(a) THEN a ELSE b

\* floor(v * n / d) without leaving 32 bits (|n| <= 2000, 0 < d <= 100000)
MulDiv(v, n, d) == ((v \div d) * n) + (((v % d) * n) \div d)
\* a / b rounded to the nearest integer, b > 0
RoundDiv(a, b) == (a + (b \div 2)) \div b

\* x * (n / d) for a finite rational scale n/d, d > 0
Scale(x, n, d) ==
  CASE x.k = "fin" -> Fin(MulDiv(x.v, n, d))
    [] x.k = "nan" -> NaN
    [] x.k = "undef" -> NaN
    [] x.k = "inf" -> IF n > 0 THEN PosInf ELSE IF n < 0 THEN NegInf ELSE NaN
    [] x.k = "ninf" -> IF n > 0 THEN NegInf ELSE IF n < 0 THEN PosInf ELSE NaN

\* parseFloat of a response field: a numeral, the text "Infinity", other text,
\* or a missing field (parseFloat(undefined) is NaN)
ParseFloat(raw) ==
  CASE raw.t = "numeral" -> Fin(raw.v)
    [] raw.t = "infinity" -> PosInf
    [] raw.t = "text" -> NaN
    [] raw.t = "missing" -> NaN

Numeral(i) == [t |-> "numeral", v |-> i]
InfinityText == [t |-> "infinity", v |-> 0]
Garbage == [t |-> "text", v |-> 0]
Missing == [t |-> "missing", v |-> 0]
\* truthiness of a string-or-undefined response field: a non-empty string is truthy
RawTruthy(raw) == raw.t # "missing"

\* ------------------------------------------------------------ instruments
symbols == <<"EURUSD", "GBPUSD", "USDJPY", "XAUUSD", "SPX500", "NAS100", "GER40">>
Symbols == {symbols[i] : i \in 1..Len(symbols)}
UnknownSymbol == "BTCUSD"
AnySymbol == Symbols \cup {UnknownSymbol}

\* fallbackPrices[symbol].price, in units of 1e-5
fallbackBase(S) ==
  CASE S = "EURUSD" -> 108450
    [] S = "GBPUSD" -> 126350
    [] S = "USDJPY" -> 14985000
    [] S = "XAUUSD" -> 234050000
    [] S = "SPX500" -> 478520000
    [] S = "NAS100" -> 1684530000
    [] S = "GER40" -> 1709875000

\* ------------------------------------------------------------ quotes
Null == [null |-> TRUE]
Thrown == [thrown |-> TRUE]

\* MarketData: price and change in units of 1e-5, changePercent in units of
\* 1e-3 percent.  volume, high24h, low24h and timestamp are carried along by
\* every operation and read by none; they are left out.
Quote(S, price, change, changePercent) ==
  [symbol |-> S, price |-> price, change |-> change, changePercent |-> changePercent]

IsQuote(q) == q # Null /\ q # Thrown

\* ------------------------------------------------------------ TTL cache
MsPerSecond == 1000

\* setCache(key, data, ttlSeconds) at time t on the Map m
\* a store that leaves the expiry of an entry it overwrites as it was
SetCacheKeepExpiry(m, key, data, ttlSeconds, t) ==
  LET expiry == IF key \in DOMAIN m THEN m[key].expiry ELSE t + (ttlSeconds * MsPerSecond)
  IN [k \in (DOMAIN m) \cup {key} |->
        IF k = key THEN [data |-> data, expiry |-> expiry] ELSE m[k]]
SetCache(m, key, data, ttlSeconds, t) ==
  LET expiry == t + (ttlSeconds * MsPerSecond)
  IN [k \in (DOMAIN m) \cup {key} |->
        IF k = key THEN [data |-> data, expiry |-> expiry] ELSE m[k]]

\* getCache(key) at time t on the Map m: the Map afterwards and the value returned
\* a lookup that reports an expired entry absent and leaves it in the map
GetCacheKeepsExpired(m, key, t) ==
  IF key \notin DOMAIN m THEN [map |-> m, val |-> Null]
  ELSE IF t > m[key].expiry
       THEN [map |-> m, val |-> Null]
       ELSE [map |-> m, val |-> m[key].data]

\* a lookup that already treats an entry as expired at its expiry instant
GetCacheStrict(m, key, t) ==
  IF key \notin DOMAIN m THEN [map |-> m, val |-> Null]
  ELSE IF t >= m[key].expiry
       THEN [map |-> [k \in (DOMAIN m) \ {key} |-> m[k]], val |-> Null]
       ELSE [map |-> m, val |-> m[key].data]
GetCache(m, key, t) ==
  IF key \notin DOMAIN m THEN [map |-> m, val |-> Null]
  ELSE IF t > m[key].expiry
       THEN [map |-> [k \in (DOMAIN m) \ {key} |-> m[k]], val |-> Null]
       ELSE [map |-> m, val |-> m[key].data]

EmptyMap == [k \in {} |-> Null]

\* ------------------------------------------------------------ random draws
\* Math.random() in thousandths: the least and the greatest value
RandomDraws == {0, 999}

\* ------------------------------------------------------------ state
VARIABLES
  now,        \* Date.now(), ms
  cache,      \* MarketDataService.cache (multi-source): key -> [data, expiry]
  fhCache,    \* FinnhubService.cache: key -> [data, expiry]
  call,       \* per slot: one getCurrentPrice invocation and where it stands
  callsLeft,  \* outside invocations still allowed
  lastSet,    \* history: per key of `cache`, the last setCache (time, ttl, provider, data)
  asked,      \* the instruments outside callers ask for in this run
  probe,      \* cache exercise: what the latest getCache handed back, and the lookups so far
  bulk,       \* the getAllPrices invocation and where it stands
  outage,     \* the instruments, other than the asked ones, whose upstreams are down in this run
  req,        \* the analysis request being handled and where it stands
  ai,         \* MultiAIAnalysisService: its two services' credentials, providerPriority, and the analyzeMarket invocation
  comparison, \* a pair of analyses handed to compareAnalyses, and what it returned
  indicator,  \* the indicator engine: the series handed to a calculate* method, and what it returned
  history,    \* the bar series store: its cached series, and what getHistoricalData last returned
  local,      \* the rule engine: the request handed to enhancedLocalAnalysis, and what it returned
  driver      \* the price driver of SocketManager: its interval, lastPriceUpdate, the calls in flight

vars == <<now, cache, fhCache, call, callsLeft, lastSet, asked, probe, bulk, outage, req, ai,
          comparison, indicator, history, local, driver>>

Slots == 1..Len(symbols)
\* the slots outside callers use: two invocations can be in flight at once
Callers == {1, 2}

\* pc, sym, tmp, ret: the invocation.  trail, results, last: its history (the
\* providers invoked in order, whether each result was accepted, and the class of
\* the latest result)
IdleCall == [pc |-> "idle", sym |-> "", tmp |-> Null, ret |-> Null,
             trail |-> <<>>, results |-> <<>>, last |-> "none"]

\* Promise.all of the Finnhub service has not heard from this request yet
Pending == [pending |-> TRUE]

\* fh: per instrument, what the bulk call of the Finnhub service got.  bulkCalls:
\* history, the invocations of finnhubService.getAllPrices
IdleBulk == [pc |-> "idle", fh |-> [S \in Symbols |-> Null], ret |-> Null, bulkCalls |-> 0]

\* query, symbol: the request body.  sent: the response.  backend: history, the
\* analysis backend has been invoked
IdleReq == [pc |-> "idle", via |-> "", query |-> FALSE, symbol |-> "", sent |-> "",
            backend |-> FALSE]
\* the slot the request handler's getCurrentPrice call runs in
ReqSlot == 1

\* ------------------------------------------------------------ validity
\* a validity test that lets any finite price through, whatever its sign
isValidPriceAnySign(data) ==
  /\ IsQuote(data)
  /\ ~IsNaNNum(data.price)
  /\ IsFiniteNum(data.price)

\* isValidPrice(data): data && price > 0 && !isNaN(price) && isFinite(price)
isValidPrice(data) ==
  /\ IsQuote(data)
  /\ GtZero(data.price)
  /\ ~IsNaNNum(data.price)
  /\ IsFiniteNum(data.price)

\* how the chain classifies what a provider handed back
Outcome(r) ==
  IF r = Thrown THEN "thrown"
  ELSE IF r = Null THEN "absent"
  ELSE IF isValidPrice(r) THEN "valid" ELSE "invalid"

\* what the history keeps of a provider's result
Note(st, c, r) ==
  [st EXCEPT !.call[c].results = Append(@, IF Outcome(r) = "valid" THEN "valid" ELSE "failed"),
             !.call[c].last = Outcome(r)]

\* ------------------------------------------------------------ Finnhub service
FinnhubOwnTtl == 5
finnhubMapped(S) == S \in Symbols

\* a price the upstream reports for S: away from the fallback baseline
LivePrice(S) == fallbackBase(S) + 230

\* the body of a Finnhub /quote answer: c, d, dp as JSON numbers or null
FinnhubBodies(S) ==
  { [c |-> Undefined, d |-> Undefined, dp |-> Undefined],
    [c |-> Fin(0), d |-> Undefined, dp |-> Undefined],
    [c |-> Fin(0 - LivePrice(S)), d |-> Fin(-40), dp |-> Fin(-37)],
    [c |-> Fin(LivePrice(S)), d |-> Undefined, dp |-> Undefined],
    [c |-> Fin(LivePrice(S)), d |-> Fin(40), dp |-> Fin(37)] }
FinnhubAnswers(S) == {Thrown} \cup FinnhubBodies(S)
\* the answer of a Finnhub that is up and quotes S
LiveBody(S) == [c |-> Fin(LivePrice(S)), d |-> Fin(40), dp |-> Fin(37)]
\* what a request for S can settle with in this run: anything for an asked
\* instrument; for the others Finnhub quotes them, unless they are in the outage
UpstreamFinnhub(S) ==
  IF S \in asked THEN FinnhubAnswers(S)
  ELSE IF S \in outage THEN {Thrown} ELSE {LiveBody(S)}

\* FinnhubService.getCurrentPrice up to its await: cache lookup, symbol mapping
FinnhubBegin(fh, S, t) ==
  LET g == GetCache(fh, "price:" \o S, t)
  IN IF g.val # Null THEN [fh |-> g.map, pending |-> FALSE, val |-> g.val]
     ELSE IF ~finnhubMapped(S) THEN [fh |-> g.map, pending |-> FALSE, val |-> Null]
     ELSE [fh |-> g.map, pending |-> TRUE, val |-> Null]

\* FinnhubService.getCurrentPrice after axios.get settled with answer a
FinnhubFinish(fh, S, a, t) ==
  IF a = Thrown THEN [fh |-> fh, val |-> Null]
  ELSE IF ~Truthy(a.c) \/ a.c = Fin(0) THEN [fh |-> fh, val |-> Null]
  ELSE LET marketData == Quote(S, a.c, OrElse(a.d, Fin(0)), OrElse(a.dp, Fin(0)))
       IN [fh |-> SetCache(fh, "price:" \o S, marketData, FinnhubOwnTtl, t), val |-> marketData]

\* ------------------------------------------------------------ Twelve Data
twelveMapped(S) == S \in Symbols

\* response.data.price of a Twelve Data /price answer (a string, or missing)
PriceFields(S) ==
  {Missing, Garbage, InfinityText, Numeral(0), Numeral(0 - LivePrice(S)), Numeral(LivePrice(S))}
TwelveAnswers(S) == {Thrown} \cup PriceFields(S)
\* the later sources only get a request for an instrument Finnhub failed on
UpstreamTwelve(S) == IF S \in asked THEN TwelveAnswers(S) ELSE {Thrown}

\* a / b * 100 in units of 1e-3 percent, for a and b in units of 1e-5
PercentOf(a, b) ==
  IF a.k = "fin" /\ b.k = "fin"
  THEN IF b.v = 0
       THEN (IF a.v = 0 THEN NaN ELSE IF a.v > 0 THEN PosInf ELSE NegInf)
       ELSE LET neg == (a.v < 0) # (b.v < 0)
                aa == IF a.v < 0 THEN 0 - a.v ELSE a.v
                bb == IF b.v < 0 THEN 0 - b.v ELSE b.v
                \* keep aa * 100000 within 32 bits, as a float keeps its leading digits
                s == IF aa <= 20000 THEN 1 ELSE IF aa <= 20000000 THEN 1000 ELSE 100000
                q == ((aa \div s) * 100000) \div (IF bb \div s = 0 THEN 1 ELSE bb \div s)
            IN Fin(IF neg THEN 0 - q ELSE q)
  ELSE IF a.k \in {"nan", "undef"} \/ b.k \in {"nan", "undef"} THEN NaN
  ELSE IF a.k \in {"inf", "ninf"} /\ b.k \in {"inf", "ninf"} THEN NaN
  ELSE IF b.k \in {"inf", "ninf"} THEN Fin(0)
  ELSE IF (a.k = "inf") = (b.v >= 0) THEN PosInf ELSE NegInf

\* getTwelveDataPrice after axios.get settled with answer a; r is Math.random()
TwelveFinish(S, a, r) ==
  IF a = Thrown THEN Thrown
  ELSE IF RawTruthy(a)
  THEN LET price == ParseFloat(a)
           change == Scale(price, (r - 500) * 2, 100000)
       IN Quote(S, price, change, PercentOf(change, price))
  ELSE Null

\* ------------------------------------------------------------ Alpha Vantage
alphaMapping(S) ==
  CASE S \in {"EURUSD", "GBPUSD", "USDJPY", "XAUUSD"} -> "forex"
    [] S \in {"SPX500", "NAS100", "GER40"} -> "equity"
    [] OTHER -> "none"

\* response.data['Realtime Currency Exchange Rate']: missing, or an object whose
\* '5. Exchange Rate' is one of the price fields
AlphaAnswers(S) ==
  {Thrown, [data |-> FALSE, rate |-> Missing]}
    \cup {[data |-> TRUE, rate |-> f] : f \in PriceFields(S)}
UpstreamAlpha(S) == IF S \in asked THEN AlphaAnswers(S) ELSE {Thrown}

\* getAlphaVantagePrice after axios.get settled; r1, r2 are the Math.random() draws
AlphaFinish(S, a, r1, r2) ==
  IF a = Thrown THEN Thrown
  ELSE IF alphaMapping(S) = "forex" /\ a.data
  THEN LET price == ParseFloat(a.rate)
       IN Quote(S, price, Scale(price, r1 - 500, 100000), Fin((r2 - 500) * 2))
  ELSE Null

\* ------------------------------------------------------------ synthetic fallback
\* getEnhancedFallback(symbol); r is Math.random()
getEnhancedFallback(S, r) ==
  LET baseSymbol == IF S \in Symbols THEN S ELSE "EURUSD"
      basePrice == fallbackBase(baseSymbol)
      \* variation = (r - 0.5) * 0.001, in units of 1e-6
      variation == r - 500
      \* toFixed(5) of newPrice and of change
      shown == RoundDiv(variation, 10)
      pct == RoundDiv(variation * 10000, basePrice)
  IN Quote(baseSymbol, Fin(basePrice + shown), Fin(shown), Fin(pct))

\* ------------------------------------------------------------ getCurrentPrice (multi-source)
\* a key that leaves the symbol out
CacheKeyShared(S) == "enhanced:"
CacheKey(S) == "enhanced:" \o S

FinnhubTtl == 3
TwelveTtl == 5
AlphaTtl == 10
FallbackTtl == 2

PutLast(g, key, rec) ==
  [k \in (DOMAIN g) \cup {key} |-> IF k = key THEN rec ELSE g[k]]

\* the services' mutable state a step of the chain works on
Services == [cache |-> cache, fh |-> fhCache, call |-> call, lastSet |-> lastSet,
             bulk |-> bulk, req |-> req]

\* this.setCache(cacheKey, data, ttl); return data
Accept(st, c, data, ttl, provider, t) ==
  LET S == st.call[c].sym
  IN [st EXCEPT
        !.cache = SetCache(st.cache, CacheKey(S), data, ttl, t),
        !.lastSet = PutLast(st.lastSet, CacheKey(S),
                            [time |-> t, ttl |-> ttl, by |-> provider, data |-> data]),
        !.call[c] = [@ EXCEPT !.pc = "done", !.ret = data, !.tmp = Null]]

\* getCurrentPrice(symbol) up to its first await: the cache lookup, and on a miss
\* the call of finnhubService.getCurrentPrice up to its own await
BeginCall(st, c, S, t) ==
  LET g == GetCache(st.cache, CacheKey(S), t)
  IN IF g.val # Null
     THEN [st EXCEPT !.cache = g.map,
                     !.call[c] = [IdleCall EXCEPT !.pc = "done", !.sym = S, !.ret = g.val]]
     ELSE LET f == FinnhubBegin(st.fh, S, t)
          IN [st EXCEPT
                !.cache = g.map,
                !.fh = f.fh,
                !.call[c] = [IdleCall EXCEPT
                               !.pc = IF f.pending THEN "finnhubHttp" ELSE "finnhubReturned",
                               !.sym = S, !.tmp = f.val, !.trail = <<"finnhub">>]]

\* axios.get of the Finnhub service settles with answer a
FinnhubStep(st, c, a, t) ==
  LET f == FinnhubFinish(st.fh, st.call[c].sym, a, t)
  IN [st EXCEPT !.fh = f.fh,
                !.call[c] = [@ EXCEPT !.pc = "finnhubReturned", !.tmp = f.val]]

\* a continuation that goes on to Twelve Data whatever Finnhub handed back
AfterFinnhubNoReturn(st, c, t) ==
  LET finnhubData == st.call[c].tmp
      seen == Note(st, c, finnhubData)
  IN [seen EXCEPT
        !.call[c] = [@ EXCEPT
           !.pc = IF twelveMapped(st.call[c].sym) THEN "twelveHttp" ELSE "twelveReturned",
           !.tmp = Null, !.trail = Append(@, "twelvedata")]]

\* lines 437-449: after the await on Finnhub
AfterFinnhubStep(st, c, t) ==
  LET finnhubData == st.call[c].tmp
      seen == Note(st, c, finnhubData)
  IN IF finnhubData # Null /\ finnhubData # Thrown /\ isValidPrice(finnhubData)
     THEN Accept(seen, c, finnhubData, FinnhubTtl, "finnhub", t)
     ELSE [seen EXCEPT
             !.call[c] = [@ EXCEPT
                !.pc = IF twelveMapped(st.call[c].sym) THEN "twelveHttp" ELSE "twelveReturned",
                !.tmp = Null, !.trail = Append(@, "twelvedata")]]

\* axios.get of getTwelveDataPrice settles with answer a
TwelveStep(st, c, a, r) ==
  [st EXCEPT !.call[c] = [@ EXCEPT !.pc = "twelveReturned",
                                   !.tmp = TwelveFinish(st.call[c].sym, a, r)]]

\* lines 449-461: after the await on Twelve Data
AfterTwelveStep(st, c, t) ==
  LET twelveData == st.call[c].tmp
      seen == Note(st, c, twelveData)
  IN IF twelveData # Null /\ twelveData # Thrown /\ isValidPrice(twelveData)
     THEN Accept(seen, c, twelveData, TwelveTtl, "twelvedata", t)
     ELSE [seen EXCEPT
             !.call[c] = [@ EXCEPT
                !.pc = IF alphaMapping(st.call[c].sym) # "none" THEN "alphaHttp" ELSE "alphaReturned",
                !.tmp = Null, !.trail = Append(@, "alphavantage")]]

\* axios.get of getAlphaVantagePrice settles with answer a
AlphaStep(st, c, a, r1, r2) ==
  [st EXCEPT !.call[c] = [@ EXCEPT !.pc = "alphaReturned",
                                   !.tmp = AlphaFinish(st.call[c].sym, a, r1, r2)]]

\* lines 461-475: after the await on Alpha Vantage, the fallback included
AfterAlphaStep(st, c, r, t) ==
  LET alphaData == st.call[c].tmp
      seen == Note(st, c, alphaData)
  IN IF alphaData # Null /\ alphaData # Thrown /\ isValidPrice(alphaData)
     THEN Accept(seen, c, alphaData, AlphaTtl, "alphavantage", t)
     ELSE LET called == [seen EXCEPT !.call[c].trail = Append(@, "fallback")]
              fallback == getEnhancedFallback(st.call[c].sym, r)
          IN Accept(called, c, fallback, FallbackTtl, "fallback", t)

\* One turn of the event loop: after the callback that settled an await, the
\* continuations that need no further I/O run before anything else does.  An
\* await on a promise that is already settled (a Finnhub cache hit, a provider
\* with no mapping for the symbol) resumes within the same turn.
Settle(st, c, r, t) ==
  LET s1 == IF st.call[c].pc = "finnhubReturned" THEN AfterFinnhubStep(st, c, t) ELSE st
      s2 == IF s1.call[c].pc = "twelveReturned" THEN AfterTwelveStep(s1, c, t) ELSE s1
  IN IF s2.call[c].pc = "alphaReturned" THEN AfterAlphaStep(s2, c, r, t) ELSE s2

\* ------------------------------------------------------------ whoever awaits a call
Index(S) == CHOOSE i \in Slots : symbols[i] = S

\* a merge that keeps only the quotes a remote source supplied
CollectRemoteOnly(calls) ==
  [S \in {symbols[i] : i \in {j \in Slots : calls[j].last = "valid"}} |-> calls[Index(S)].ret]

\* lines 606-615: pricesMap of the per-symbol results
Collect(calls) ==
  [S \in {symbols[i] : i \in {j \in Slots : calls[j].ret # Null}} |-> calls[Index(S)].ret]

\* getAllPrices after its await on Promise.all(promises): it resumes in the turn
\* in which the last of the seven calls completes
ResumeAll(st) ==
  IF st.bulk.pc = "chains" /\ \A i \in Slots : st.call[i].pc = "done"
  THEN [st EXCEPT !.bulk = [@ EXCEPT !.pc = "done", !.ret = Collect(st.call)]]
  ELSE st

\* analyzeMarket (controller, lines 30-65) and the requestAnalysis handler
\* (socket manager, lines 61-103) after their await on getCurrentPrice: the
\* check of the quote, the indicators (no state of their own), and the call of
\* multiAIService.analyzeMarket up to its await
ResumeRequest(st) ==
  IF st.req.pc = "awaitPrice" /\ st.call[ReqSlot].pc = "done"
  THEN LET marketData == st.call[ReqSlot].ret
       IN IF marketData = Null
          THEN [st EXCEPT !.req = [@ EXCEPT
                  !.pc = "responded",
                  !.sent = IF st.req.via = "http" THEN "404" ELSE "analysisError"]]
          ELSE [st EXCEPT !.req = [@ EXCEPT !.pc = "awaitAnalysis", !.backend = TRUE]]
  ELSE st

\* the continuations that a completed call wakes in the same turn
Resume(st, t) == ResumeRequest(ResumeAll(st))

Install(st) ==
  /\ cache' = st.cache
  /\ fhCache' = st.fh
  /\ call' = st.call
  /\ lastSet' = st.lastSet
  /\ bulk' = st.bulk
  /\ req' = st.req

\* ------------------------------------------------------------ analysis service state
\* type AIProvider
AIProviders == {"claude", "deepseek", "local"}
\* private providerPriority: AIProvider[] = ['claude', 'deepseek', 'local']
DefaultPriority == <<"claude", "deepseek", "local">>

\* one callProvider invocation: not made, waiting for its API, or settled
NoCall == [pc |-> "none", api |-> "", result |-> Null]
InFlight(api) == [pc |-> "api", api |-> api, result |-> Null]
Settled(result) == [pc |-> "settled", api |-> "", result |-> result]

\* one analyzeMarket invocation of MultiAIAnalysisService.  tried, remote and
\* attempts are history: the providers handed to callProvider, the remote API
\* requests sent (and for which provider), and how each callProvider ended
IdleRun ==
  [pc |-> "idle", request |-> Null, providers |-> <<>>, index |-> 0, lastError |-> "undefined",
   calls |-> [p \in AIProviders |-> NoCall],
   tried |-> <<>>, remote |-> <<>>, attempts |-> <<>>, outcome |-> Null]

\* new MultiAIAnalysisService(): both services read their API key from the
\* environment, once
Constructed(anthropicKey, deepseekKey) ==
  [anthropicKey |-> anthropicKey, deepseekKey |-> deepseekKey,
   providerPriority |-> DefaultPriority, run |-> IdleRun]
\* the service as the other specifications leave it: built, never called
NoService == Constructed(FALSE, FALSE)

\* ------------------------------------------------------------ actions
\* A run follows the calls made for one instrument, or for the unknown symbol: an
\* operation on symbol S touches the keys built from S and no other
AskedSets == {{S} : S \in AnySymbol}

\* slots are interchangeable: a new call takes the lowest free one
FreeSlot(c) ==
  /\ call[c].pc \in {"idle", "done"}
  /\ \A d \in Callers : d < c => call[d].pc \notin {"idle", "done"}

Start ==
  /\ now = 0
  /\ cache = EmptyMap
  /\ fhCache = EmptyMap
  /\ call = [c \in Slots |-> IdleCall]
  /\ callsLeft = MaxCalls
  /\ lastSet = EmptyMap
  /\ asked \in AskedSets
  /\ probe = [val |-> Null, n |-> 0]
  /\ bulk = IdleBulk
  /\ req = IdleReq

\* no instrument is out but those the run asks about
Init ==
  /\ Start /\ outage = {} /\ ai = NoService /\ comparison = Null
  /\ indicator = Null /\ history = Null /\ local = Null /\ driver = Null

\* the draws an operation makes: Math.random() is only called on the path that uses it
DrawsIf(used) == IF used THEN RandomDraws ELSE {0}

\* an outside caller (a controller, the socket manager) calls getCurrentPrice(S);
\* the promise of an earlier call in the slot has been consumed
GetCurrentPrice(c, S) ==
  /\ FreeSlot(c)
  /\ callsLeft > 0
  /\ callsLeft' = callsLeft - 1
  /\ LET begun == BeginCall(Services, c, S, now)
     IN \E r \in DrawsIf(begun.call[c].pc # "done" /\ alphaMapping(S) = "none") :
          Install(Settle(begun, c, r, now))
  /\ UNCHANGED <<now, asked, probe, outage, ai, comparison, indicator, history, local, driver>>

\* the Finnhub request of call c settles
FinnhubResponse(c) ==
  /\ call[c].pc = "finnhubHttp"
  /\ \E a \in UpstreamFinnhub(call[c].sym) :
       Install(Resume(Settle(FinnhubStep(Services, c, a, now), c, 0, now), now))
  /\ UNCHANGED <<now, callsLeft, asked, probe, outage, ai, comparison, indicator, history, local, driver>>

\* the Twelve Data request of call c settles
TwelveDataResponse(c) ==
  /\ call[c].pc = "twelveHttp"
  /\ \E a \in UpstreamTwelve(call[c].sym) :
       \E r \in DrawsIf(a # Thrown /\ RawTruthy(a)) :
         Install(Resume(Settle(TwelveStep(Services, c, a, r), c, 0, now), now))
  /\ UNCHANGED <<now, callsLeft, asked, probe, outage, ai, comparison, indicator, history, local, driver>>

\* the Alpha Vantage request of call c settles
AlphaVantageResponse(c) ==
  /\ call[c].pc = "alphaHttp"
  /\ \E a \in UpstreamAlpha(call[c].sym) :
       LET built == a # Thrown /\ alphaMapping(call[c].sym) = "forex" /\ a.data
       IN \E r1 \in DrawsIf(built), r2 \in DrawsIf(built) :
            LET got == AlphaStep(Services, c, a, r1, r2)
            IN \E rf \in DrawsIf(Outcome(got.call[c].tmp) # "valid") :
                 Install(Resume(Settle(got, c, rf, now), now))
  /\ UNCHANGED <<now, callsLeft, asked, probe, outage, ai, comparison, indicator, history, local, driver>>

Tick ==
  /\ now < MaxTicks * MsPerSecond
  /\ now' = now + MsPerSecond
  /\ UNCHANGED <<cache, fhCache, call, callsLeft, lastSet, asked, probe, bulk, outage, req, ai, comparison, indicator, history, local, driver>>

\* the multi-source service under concurrent callers
Next ==
  \/ \E c \in Callers, S \in asked : GetCurrentPrice(c, S)
  \/ \E c \in Callers : FinnhubResponse(c)
  \/ \E c \in Callers : TwelveDataResponse(c)
  \/ \E c \in Callers : AlphaVantageResponse(c)
  \/ Tick

Spec == Init /\ [][Next]_vars

\* ------------------------------------------------------------ the TTL cache on its own
\* the values and TTLs the exercise stores: the two synthetic quotes of the
\* instrument, with the two shortest TTLs the service uses
StoredValues(S) == {getEnhancedFallback(S, r) : r \in RandomDraws}
StoredTtls == {FallbackTtl, FinnhubTtl}

\* this.setCache(key, data, ttl)
CacheSet(key, data, ttl) ==
  /\ cache' = SetCache(cache, key, data, ttl, now)
  /\ lastSet' = PutLast(lastSet, key, [time |-> now, ttl |-> ttl, by |-> "caller", data |-> data])
  /\ UNCHANGED <<now, fhCache, call, callsLeft, asked, probe, bulk, outage, req, ai, comparison, indicator, history, local, driver>>

\* this.getCache(key)
CacheGet(key) ==
  /\ probe.n < MaxReads
  /\ LET g == GetCache(cache, key, now)
     IN /\ cache' = g.map
        /\ probe' = [val |-> g.val, n |-> probe.n + 1]
  /\ UNCHANGED <<now, fhCache, call, callsLeft, lastSet, asked, bulk, outage, req, ai, comparison, indicator, history, local, driver>>

NextCache ==
  \/ \E S \in asked :
       \E data \in StoredValues(S), ttl \in StoredTtls : CacheSet(CacheKey(S), data, ttl)
  \/ \E S \in asked : CacheGet(CacheKey(S))
  \/ Tick

SpecCache == Init /\ [][NextCache]_vars

\* ------------------------------------------------------------ getAllPrices
\* the outages a run can have: the last j instruments of the list, the asked
\* one aside
Others(a) == {i \in Slots : symbols[i] \notin a}
Outages(a) ==
  { {symbols[i] : i \in {k \in Others(a) : Cardinality({m \in Others(a) : m >= k}) <= j}} :
      j \in 0..MaxOutage }

InitAll ==
  /\ Start /\ outage \in Outages(asked) /\ ai = NoService /\ comparison = Null
  /\ indicator = Null /\ history = Null /\ local = Null /\ driver = Null

\* a threshold of half the instruments
coversEnoughHalf(n) == n * 2 >= Len(symbols)

\* Object.keys(finnhubPrices).length >= symbols.length * 0.7
coversEnough(n) == n * 10 >= Len(symbols) * 7

\* FinnhubService.getAllPrices, lines 165-170: the entries that are not null
pricesMap(results) == [S \in {T \in Symbols : results[T] # Null} |-> results[S]]

\* FinnhubService.getAllPrices to its await: getCurrentPrice of the Finnhub
\* service for each instrument in turn, each to its own await
RECURSIVE FinnhubBeginAll(_, _, _, _)
FinnhubBeginAll(fh, i, acc, t) ==
  IF i > Len(symbols) THEN [fh |-> fh, results |-> acc]
  ELSE LET f == FinnhubBegin(fh, symbols[i], t)
       IN FinnhubBeginAll(f.fh, i + 1,
                          [acc EXCEPT ![symbols[i]] = IF f.pending THEN Pending ELSE f.val], t)

\* symbols.map(symbol => this.getCurrentPrice(symbol)): each call runs to its
\* first await before the next one starts
RECURSIVE StartChains(_, _, _)
StartChains(st, i, t) ==
  IF i > Len(symbols) THEN st
  ELSE StartChains(Settle(BeginCall(st, i, symbols[i], t), i, 0, t), i + 1, t)

\* lines 593-605: getAllPrices after its await on the bulk call, which resolves
\* once every request of the Finnhub service has settled
AfterBulk(st, t) ==
  IF \E S \in Symbols : st.bulk.fh[S] = Pending THEN st
  ELSE LET finnhubPrices == pricesMap(st.bulk.fh)
       IN IF coversEnough(Cardinality(DOMAIN finnhubPrices))
          THEN [st EXCEPT !.bulk = [@ EXCEPT !.pc = "done", !.ret = finnhubPrices]]
          ELSE ResumeAll(StartChains([st EXCEPT !.bulk = [@ EXCEPT !.pc = "chains"]], 1, t))

\* getAllPrices() is called
GetAllPrices ==
  /\ bulk.pc = "idle"
  /\ LET b == FinnhubBeginAll(fhCache, 1, [S \in Symbols |-> Null], now)
         st == [Services EXCEPT
                  !.fh = b.fh,
                  !.bulk = [@ EXCEPT !.pc = "bulk", !.fh = b.results, !.bulkCalls = @ + 1]]
     IN Install(AfterBulk(st, now))
  /\ UNCHANGED <<now, callsLeft, asked, probe, outage, ai, comparison, indicator, history, local, driver>>

\* the request the bulk call made for S settles
FinnhubBulkResponse(S) ==
  /\ bulk.pc = "bulk"
  /\ bulk.fh[S] = Pending
  /\ \E a \in UpstreamFinnhub(S) :
       LET f == FinnhubFinish(fhCache, S, a, now)
           st == [Services EXCEPT !.fh = f.fh, !.bulk = [@ EXCEPT !.fh[S] = f.val]]
       IN Install(AfterBulk(st, now))
  /\ UNCHANGED <<now, callsLeft, asked, probe, outage, ai, comparison, indicator, history, local, driver>>

NextAll ==
  \/ GetAllPrices
  \/ \E S \in Symbols : FinnhubBulkResponse(S)
  \/ \E c \in Slots : FinnhubResponse(c)
  \/ \E c \in Slots : TwelveDataResponse(c)
  \/ \E c \in Slots : AlphaVantageResponse(c)

SpecAll == InitAll /\ [][NextAll]_vars

\* getAllPrices called time and again, as the socket manager calls it for
\* every connection: a call begins when the one before has returned, time
\* passes, and the asked instrument's upstreams answer anew
MaxRounds == 2

\* the caller has its result; the next call starts
NextRound ==
  /\ bulk.pc = "done"
  /\ bulk.bulkCalls < MaxRounds
  /\ bulk' = [IdleBulk EXCEPT !.bulkCalls = bulk.bulkCalls]
  /\ call' = [c \in Slots |-> IdleCall]
  /\ UNCHANGED <<now, cache, fhCache, callsLeft, lastSet, asked, probe, outage, req, ai,
                 comparison, indicator, history, local, driver>>

\* the outages under which the answer for the asked instrument decides whether
\* the bulk result covers enough
DecidingOutages(a) ==
  {o \in Outages(a) : /\ coversEnough(Len(symbols) - Cardinality(o))
                      /\ ~coversEnough(Len(symbols) - Cardinality(o) - 1)}

InitBulk ==
  /\ Start /\ asked = {"EURUSD"} /\ outage \in DecidingOutages(asked) /\ ai = NoService
  /\ comparison = Null /\ indicator = Null /\ history = Null /\ local = Null /\ driver = Null

\* time passes between two calls
Pause ==
  /\ bulk.pc = "done"
  /\ Tick

NextBulk == NextAll \/ NextRound \/ Pause

SpecBulk == InitBulk /\ [][NextBulk]_vars

\* ------------------------------------------------------------ analysis requests
\* a request body without a symbol
NoSymbol == ""
\* the symbols a request can carry in this run
RequestSymbols == asked \cup {NoSymbol}

\* the handler calls getCurrentPrice(symbol) and runs on to its first await
AwaitPrice(via, query, symbol, r, t) ==
  LET st == [Services EXCEPT !.req = [IdleReq EXCEPT !.pc = "awaitPrice", !.via = via,
                                                     !.query = query, !.symbol = symbol]]
  IN ResumeRequest(Settle(BeginCall(st, ReqSlot, symbol, t), ReqSlot, r, t))

\* POST /analyze: analyzeMarket(req, res); query says whether the body has one
AnalyzeMarket(query, symbol) ==
  /\ req.pc = "idle"
  /\ IF ~query \/ symbol = NoSymbol
     THEN /\ req' = [IdleReq EXCEPT !.pc = "responded", !.via = "http", !.query = query,
                                    !.symbol = symbol, !.sent = "400"]
          /\ UNCHANGED <<cache, fhCache, call, lastSet, bulk>>
     ELSE \E r \in DrawsIf(alphaMapping(symbol) = "none") :
            Install(AwaitPrice("http", query, symbol, r, now))
  /\ UNCHANGED <<now, callsLeft, asked, probe, outage, ai, comparison, indicator, history, local, driver>>

\* socket.on('requestAnalysis', data)
RequestAnalysis(query, symbol) ==
  /\ req.pc = "idle"
  /\ \E r \in DrawsIf(alphaMapping(symbol) = "none") :
       Install(AwaitPrice("ws", query, symbol, r, now))
  /\ UNCHANGED <<now, callsLeft, asked, probe, outage, ai, comparison, indicator, history, local, driver>>

\* multiAIService.analyzeMarket settles: it resolves, or it rejects and the
\* handler's catch answers
AnalysisSettles(ok) ==
  /\ req.pc = "awaitAnalysis"
  /\ req' = [req EXCEPT
               !.pc = "responded",
               !.sent = IF ok THEN (IF req.via = "http" THEN "200" ELSE "analysisResult")
                        ELSE (IF req.via = "http" THEN "500" ELSE "analysisError")]
  /\ UNCHANGED <<now, cache, fhCache, call, callsLeft, lastSet, asked, probe, bulk, outage, ai, comparison, indicator, history, local, driver>>

NextReq ==
  \/ \E query \in BOOLEAN, symbol \in RequestSymbols : AnalyzeMarket(query, symbol)
  \/ \E query \in BOOLEAN, symbol \in RequestSymbols : RequestAnalysis(query, symbol)
  \/ FinnhubResponse(ReqSlot)
  \/ TwelveDataResponse(ReqSlot)
  \/ AlphaVantageResponse(ReqSlot)
  \/ \E ok \in BOOLEAN : AnalysisSettles(ok)
  \/ Tick

SpecReq == Init /\ [][NextReq]_vars

\* ------------------------------------------------------------ getCurrentPrice (Alpha Vantage only)
\* The earlier MarketDataService: one remote source per instrument (Alpha
\* Vantage, or metals.live for gold), its own cache under price:<S>.  In
\* SpecV1 the variable `cache` is the cache of this service.
PriceKey(S) == "price:" \o S
V1Ttl == 60

symbolMappingV1(S) ==
  CASE S \in {"EURUSD", "GBPUSD", "USDJPY"} -> "forex"
    [] S = "XAUUSD" -> "commodity"
    [] S \in {"SPX500", "NAS100", "GER40"} -> "equity"
    [] OTHER -> "none"

\* a - b
Minus(a, b) ==
  IF a.k = "fin" /\ b.k = "fin" THEN Fin(a.v - b.v)
  ELSE IF a.k \in {"nan", "undef"} \/ b.k \in {"nan", "undef"} THEN NaN
  ELSE IF a.k = b.k THEN NaN
  ELSE IF a.k = "inf" \/ b.k = "ninf" THEN PosInf ELSE NegInf

\* Math.round(x * 10^n) / 10^n, step being 10^-n in the unit of x
RoundTo(x, step) ==
  IF x.k = "fin" THEN Fin(RoundDiv(x.v, step) * step)
  ELSE IF x.k = "undef" THEN NaN ELSE x

\* a JSON number field, or undefined when the body has no such field
FromJson(raw) == IF raw.t = "numeral" THEN Fin(raw.v) ELSE Undefined

\* getFallbackPrice: currentPrices[symbol] || 1.0000, in units of 1e-5
currentPrices(S) ==
  CASE S = "EURUSD" -> 108500
    [] S = "GBPUSD" -> 126300
    [] S = "USDJPY" -> 15020000
    [] S = "XAUUSD" -> 234850000
    [] S = "SPX500" -> 478025000
    [] S = "NAS100" -> 1695030000
    [] S = "GER40" -> 1715075000
    [] OTHER -> 100000

\* getVolatility(symbol), in tenths of a percent
getVolatility(S) ==
  CASE S = "EURUSD" -> 3
    [] S = "GBPUSD" -> 5
    [] S = "USDJPY" -> 4
    [] S = "XAUUSD" -> 8
    [] S = "SPX500" -> 6
    [] S = "NAS100" -> 9
    [] S = "GER40" -> 7
    [] OTHER -> 5

\* getFallbackPrice(symbol); r is Math.random()
getFallbackPrice(S, r) ==
  LET basePrice == currentPrices(S)
      volatility == getVolatility(S)
      \* variation = (r - 0.5) * 2 * (volatility / 100); change = basePrice * variation
      change == MulDiv(MulDiv(basePrice, r - 500, 1000), volatility, 500)
      changePercent == RoundDiv((r - 500) * volatility, 5)
  IN Quote(S, RoundTo(Fin(basePrice + change), 10), RoundTo(Fin(change), 10),
           RoundTo(Fin(changePercent), 10))

\* getGoldFallback(); r is Math.random()
getGoldFallback(r) ==
  LET goldPrice == 234850000
      change == (r - 500) * 2000
  IN Quote("XAUUSD", RoundTo(Fin(goldPrice + change), 1000), RoundTo(Fin(change), 1000),
           RoundTo(PercentOf(Fin(change), Fin(goldPrice)), 10))

\* what the one remote request of the service settles with: it throws, or its
\* body lacks the data object, or the data object carries a price field and
\* either both or none of its companion fields
V1Answers(S) ==
  {Thrown, [data |-> FALSE, price |-> Missing, aux |-> Missing]}
    \cup {[data |-> TRUE, price |-> f, aux |-> x] :
            f \in PriceFields(S), x \in {Missing, Numeral(LivePrice(S) - 40)}}

\* what lines 84-121 leave in price, change and changePercent; exit names the
\* return or throw that leaves the remote path there
Read(exit, price, change, changePercent) ==
  [exit |-> exit, price |-> price, change |-> change, changePercent |-> changePercent]

V1Read(S, a) ==
  LET kind == symbolMappingV1(S)
      zero == Read("none", Fin(0), Fin(0), Fin(0))
  IN IF a = Thrown
     THEN Read(IF kind = "commodity" THEN "gold" ELSE "fallback", Fin(0), Fin(0), Fin(0))
     ELSE IF kind = "forex"
     THEN IF ~a.data THEN zero
          ELSE LET price == ParseFloat(a.price)
                   previousClose == OrElse(ParseFloat(a.aux), price)
                   change == Minus(price, previousClose)
               IN Read("none", price, change, PercentOf(change, previousClose))
     ELSE IF kind = "equity"
     THEN IF ~a.data THEN zero
          \* data['10. change percent'].replace on a missing field throws
          ELSE IF a.aux = Missing THEN Read("fallback", Fin(0), Fin(0), Fin(0))
          ELSE Read("none", ParseFloat(a.price), ParseFloat(a.aux), Fin(37))
     ELSE Read("none", FromJson(a.price), FromJson(a.aux),
               IF a.aux = Missing THEN Undefined ELSE Fin(37))

\* lines 123-147: the quote the call returns after its request settled, and
\* whether it is written to the cache
V1Finish(S, a, r) ==
  LET got == V1Read(S, a)
  IN IF got.exit = "gold" THEN [val |-> getGoldFallback(r), remote |-> FALSE]
     ELSE IF got.exit = "fallback" \/ got.price = Fin(0)
     THEN [val |-> getFallbackPrice(S, r), remote |-> FALSE]
     ELSE [val |-> Quote(S, RoundTo(got.price, 10), RoundTo(got.change, 10),
                         RoundTo(got.changePercent, 10)),
           remote |-> TRUE]

\* getCurrentPrice(symbol) of the earlier service, to its await
GetCurrentPriceV1(c, S) ==
  /\ FreeSlot(c)
  /\ callsLeft > 0
  /\ callsLeft' = callsLeft - 1
  /\ LET g == GetCache(cache, PriceKey(S), now)
     IN /\ cache' = g.map
        /\ IF g.val # Null
           THEN call' = [call EXCEPT ![c] = [IdleCall EXCEPT !.pc = "done", !.sym = S,
                                                             !.ret = g.val]]
           ELSE IF symbolMappingV1(S) = "none"
           THEN \E r \in RandomDraws :
                  call' = [call EXCEPT ![c] = [IdleCall EXCEPT
                             !.pc = "done", !.sym = S, !.ret = getFallbackPrice(S, r),
                             !.trail = <<"fallback">>]]
           ELSE call' = [call EXCEPT ![c] = [IdleCall EXCEPT
                           !.pc = "v1Http", !.sym = S,
                           !.trail = <<IF symbolMappingV1(S) = "commodity"
                                       THEN "metals" ELSE "alphavantage">>]]
  /\ UNCHANGED <<now, fhCache, lastSet, asked, probe, bulk, outage, req, ai, comparison, indicator, history, local, driver>>

\* the remote request of call c settles
RemoteResponseV1(c) ==
  /\ call[c].pc = "v1Http"
  /\ \E a \in V1Answers(call[c].sym) :
       \E r \in DrawsIf(~V1Finish(call[c].sym, a, 0).remote) :
         LET S == call[c].sym
             f == V1Finish(S, a, r)
         IN IF f.remote
            THEN /\ cache' = SetCache(cache, PriceKey(S), f.val, V1Ttl, now)
                 /\ lastSet' = PutLast(lastSet, PriceKey(S),
                                       [time |-> now, ttl |-> V1Ttl,
                                        by |-> call[c].trail[1], data |-> f.val])
                 /\ call' = [call EXCEPT ![c] = [@ EXCEPT
                               !.pc = "done", !.ret = f.val,
                               !.results = <<"valid">>, !.last = "valid"]]
            ELSE /\ call' = [call EXCEPT ![c] = [@ EXCEPT
                               !.pc = "done", !.ret = f.val,
                               !.trail = Append(@, "fallback"),
                               !.results = <<"failed">>, !.last = "failed"]]
                 /\ UNCHANGED <<cache, lastSet>>
  /\ UNCHANGED <<now, fhCache, callsLeft, asked, probe, bulk, outage, req, ai, comparison, indicator, history, local, driver>>

NextV1 ==
  \/ \E c \in Callers, S \in asked : GetCurrentPriceV1(c, S)
  \/ \E c \in Callers : RemoteResponseV1(c)
  \/ Tick

SpecV1 == Init /\ [][NextV1]_vars

\* ------------------------------------------------------------ analysis results
\* Text is a sequence of characters, so that toLowerCase and includes are
\* computed and not assumed.  A text field of a response is a text or missing.
Text(s) == [t |-> "text", v |-> s]
NoText == [t |-> "missing", v |-> <<>>]

\* the characters of the string literals the model uses
Chars(s) ==
  CASE s = "BUY - Safe haven demand" -> <<"B", "U", "Y", " ", "-", " ", "S", "a", "f", "e", " ", "h", "a", "v", "e", "n", " ", "d", "e", "m", "a", "n", "d">>
    [] s = "SELL - Risk-on sentiment" -> <<"S", "E", "L", "L", " ", "-", " ", "R", "i", "s", "k", "-", "o", "n", " ", "s", "e", "n", "t", "i", "m", "e", "n", "t">>
    [] s = "HOLD - Consolidación" -> <<"H", "O", "L", "D", " ", "-", " ", "C", "o", "n", "s", "o", "l", "i", "d", "a", "c", "i", "ó", "n">>
    [] s = "BUY - USD strength" -> <<"B", "U", "Y", " ", "-", " ", "U", "S", "D", " ", "s", "t", "r", "e", "n", "g", "t", "h">>
    [] s = "SELL - Counter weakness" -> <<"S", "E", "L", "L", " ", "-", " ", "C", "o", "u", "n", "t", "e", "r", " ", "w", "e", "a", "k", "n", "e", "s", "s">>
    [] s = "SELL - USD weakness" -> <<"S", "E", "L", "L", " ", "-", " ", "U", "S", "D", " ", "w", "e", "a", "k", "n", "e", "s", "s">>
    [] s = "BUY - Counter strength" -> <<"B", "U", "Y", " ", "-", " ", "C", "o", "u", "n", "t", "e", "r", " ", "s", "t", "r", "e", "n", "g", "t", "h">>
    [] s = "HOLD - Range bound" -> <<"H", "O", "L", "D", " ", "-", " ", "R", "a", "n", "g", "e", " ", "b", "o", "u", "n", "d">>
    [] s = "BUY - Risk appetite" -> <<"B", "U", "Y", " ", "-", " ", "R", "i", "s", "k", " ", "a", "p", "p", "e", "t", "i", "t", "e">>
    [] s = "WAIT - Risk-off" -> <<"W", "A", "I", "T", " ", "-", " ", "R", "i", "s", "k", "-", "o", "f", "f">>
    [] s = "HOLD - Neutral" -> <<"H", "O", "L", "D", " ", "-", " ", "N", "e", "u", "t", "r", "a", "l">>
    [] s = "oro" -> <<"o", "r", "o">>
    [] s = "buy" -> <<"b", "u", "y">>
    [] s = "sell" -> <<"s", "e", "l", "l">>
    [] s = "hold" -> <<"h", "o", "l", "d">>
    [] s = "Comprar ORO?" -> <<"C", "o", "m", "p", "r", "a", "r", " ", "O", "R", "O", "?">>
    [] s = "Sube?" -> <<"S", "u", "b", "e", "?">>
    [] s = "BUY" -> <<"B", "U", "Y">>
    [] s = "Sell" -> <<"S", "e", "l", "l">>
    [] s = "" -> <<>>

UpperCase ==
  <<"A", "B", "C", "D", "E", "F", "G", "H", "I", "J", "K", "L", "M",
    "N", "O", "P", "Q", "R", "S", "T", "U", "V", "W", "X", "Y", "Z">>
LowerCase ==
  <<"a", "b", "c", "d", "e", "f", "g", "h", "i", "j", "k", "l", "m",
    "n", "o", "p", "q", "r", "s", "t", "u", "v", "w", "x", "y", "z">>
\* s.toLowerCase()
ToLowerCase(s) ==
  [i \in 1..Len(s) |->
     IF \E j \in 1..Len(UpperCase) : UpperCase[j] = s[i]
     THEN LowerCase[CHOOSE j \in 1..Len(UpperCase) : UpperCase[j] = s[i]]
     ELSE s[i]]
\* s.includes(sub)
Includes(s, sub) ==
  \E i \in 0..(Len(s) - Len(sub)) : SubSeq(s, i + 1, i + Len(sub)) = sub

\* AnalysisResponse, as far as any operation reads it: recommendation (a text
\* or missing), confidence (a number or undefined), keyLevels.entry (a raw
\* field), source, and whether the object carries a truthy `error` field
AnalysisResponse(recommendation, confidence, entry, source, error) ==
  [recommendation |-> recommendation, confidence |-> confidence, entry |-> entry,
   source |-> source, error |-> error]

\* how an awaited call ended: it returned a value, or it threw
Returned(value) == [ok |-> TRUE, value |-> value, message |-> ""]
Threw(message) == [ok |-> FALSE, value |-> Null, message |-> message]

\* ------------------------------------------------------------ local analysis
IncludesUSD(S) == S \in {"EURUSD", "GBPUSD", "USDJPY", "XAUUSD", UnknownSymbol}
StartsWithUSD(S) == S = "USDJPY"
IncludesJPY(S) == S = "USDJPY"
\* no symbol taken for an index
IsNoIndex(S) == FALSE
\* symbol.includes('500') || symbol.includes('NAS') || symbol.includes('GER')
IsIndex(S) == S \in {"SPX500", "NAS100", "GER40"}
\* the number itself for its absolute value
Signed(x) == x
\* Math.abs(x) of a finite number
AbsNum(x) == IF x.k = "fin" /\ x.v < 0 THEN Fin(0 - x.v) ELSE x
\* a > n and a < n for a number a and an integer n (false for NaN)
Above(a, n) == (a.k = "fin" /\ a.v > n) \/ a.k = "inf"
Below(a, n) == (a.k = "fin" /\ a.v < n) \/ a.k = "ninf"

\* the word the rule engine looks for in the query
Oro == Chars("oro")

\* ClaudeAnalysisService.enhancedLocalAnalysis(request): the rules on symbol,
\* query and changePercent; query.toLowerCase() and symbol.includes() throw a
\* TypeError on a missing query or symbol
enhancedLocalAnalysis(request) ==
  LET S == request.symbol
      cp == request.marketData.changePercent
      price == request.marketData.price
      gold == S = "XAUUSD" \/ Includes(ToLowerCase(request.query.v), Oro)
      recommendation ==
        IF gold
        THEN (IF Above(cp, 300) THEN Text(Chars("BUY - Safe haven demand"))
              ELSE IF Below(cp, -300) THEN Text(Chars("SELL - Risk-on sentiment")) ELSE Text(Chars("HOLD - Consolidación")))
        ELSE IF IncludesUSD(S)
        THEN (IF Above(AbsNum(cp), 200)
              THEN (IF Above(cp, 200)
                    THEN (IF StartsWithUSD(S) THEN Text(Chars("BUY - USD strength")) ELSE Text(Chars("SELL - Counter weakness")))
                    ELSE (IF StartsWithUSD(S) THEN Text(Chars("SELL - USD weakness")) ELSE Text(Chars("BUY - Counter strength"))))
              ELSE Text(Chars("HOLD - Range bound")))
        ELSE IF IsIndex(S)
        THEN (IF Above(cp, 300) THEN Text(Chars("BUY - Risk appetite"))
              ELSE IF Below(cp, -300) THEN Text(Chars("WAIT - Risk-off")) ELSE Text(Chars("HOLD - Neutral")))
        ELSE Text(Chars(""))
      confidence ==
        IF gold THEN (IF Above(AbsNum(cp), 500) THEN 7 ELSE 5)
        ELSE IF IncludesUSD(S) THEN (IF Above(AbsNum(cp), 200) THEN 6 ELSE 5)
        ELSE IF IsIndex(S) THEN (IF Above(cp, 300) THEN 7
                                 ELSE IF Below(cp, -300) THEN 6 ELSE 5)
        ELSE 5
      entryLevel == RoundTo(price, IF IncludesJPY(S) THEN 1000 ELSE 10)
  IN IF request.query.t = "missing" THEN Threw("TypeError")
     ELSE IF S = NoSymbol THEN Threw("TypeError")
     ELSE Returned(AnalysisResponse(recommendation, Fin(confidence), Numeral(entryLevel.v),
                                    "enhanced-local-analysis", FALSE))

\* (price * (1 + sign * n / 100000)).toFixed(digits) for a price in units of
\* 1e-5, 0 <= n <= 2000, step being 10^-digits in that unit: the exact product
\* is whole + rem / 100000 below or above the price
Level(price, sign, n, step) ==
  LET d == MulDiv(price, n, 100000)
      rem == ((price % 100000) * n) % 100000
      floor == IF sign > 0 THEN price + d
               ELSE IF rem = 0 THEN price - d ELSE price - d - 1
  IN  Fin(RoundDiv(floor, step) * step)

\* lines 238-246 of enhancedLocalAnalysis: keyLevels and riskManagement of the
\* response it returned, prices in units of 1e-5, changePercent in 1e-3 percent
riskLevels(request, response) ==
  LET price == request.marketData.price.v
      changePercent == request.marketData.changePercent
      step == IF IncludesJPY(request.symbol) THEN 1000 ELSE 10
      \* volatility = Math.abs(changePercent) / 100
      volatility == AbsNum(changePercent)
      multiplier == IF Includes(response.recommendation.v, Chars("BUY")) THEN 1 ELSE -1
  IN  [support |-> IF volatility.k = "fin"
                   THEN Level(price, -1, 500 + volatility.v, step) ELSE NaN,
       resistance |-> IF volatility.k = "fin"
                      THEN Level(price, 1, 500 + volatility.v, step) ELSE NaN,
       entry |-> RoundTo(Fin(price), step),
       stopLoss |-> Level(price, 0 - multiplier, 800, step),
       takeProfit |-> Level(price, multiplier, 2000, step)]

\* ------------------------------------------------------------ remote analysis APIs
\* What a remote API call ends with: the request throws (network error,
\* timeout, an HTTP error status), the reply carries no text, the text is not
\* JSON, or the text parses to an object
ApiThrew == [kind |-> "throw", body |-> Null]
ApiNoContent == [kind |-> "nocontent", body |-> Null]
ApiNotJson == [kind |-> "text", body |-> Null]
ApiJson(body) == [kind |-> "json", body |-> body]

\* JSON.parse(responseText) spread under the service's own source
Parsed(body, source) == [body EXCEPT !.source = source]

\* ClaudeAnalysisService.analyzeMarket after `await this.callClaudeAPI(request)`:
\* the parsed reply, and on any throw the local analysis instead
ClaudeFinish(request, answer) ==
  IF answer.kind = "json"
  THEN Returned(Parsed(answer.body, "claude-api"))
  ELSE enhancedLocalAnalysis(request)

\* DeepSeekService.analyzeMarket after `await this.callDeepSeekAPI(request)`
DeepSeekFinish(answer) ==
  CASE answer.kind = "throw" -> Threw("Network Error")
    [] answer.kind = "nocontent" -> Threw("Invalid response from DeepSeek API")
    [] answer.kind = "text" -> Threw("Invalid JSON response from DeepSeek")
    [] answer.kind = "json" -> Returned(Parsed(answer.body, "deepseek-api"))

\* ------------------------------------------------------------ MultiAIAnalysisService
\* the service's part of callProvider(provider, request) that runs at once:
\* without a key the Claude service answers locally and the DeepSeek service
\* throws; with a key the API request goes out
ServiceBegin(a, provider) ==
  IF provider = "deepseek"
  THEN (IF a.deepseekKey THEN InFlight("deepseek")
        ELSE Settled(Threw("DeepSeek API not available - no API key")))
  ELSE (IF a.anthropicKey THEN InFlight("anthropic")
        ELSE Settled(enhancedLocalAnalysis(a.run.request)))

\* a callProvider invocation has settled: history, with the kind of answer the
\* API gave if one was asked
Attempted(run, provider, answered, result) ==
  [run EXCEPT !.attempts = Append(@, [provider |-> provider, answered |-> answered,
                                      result |-> result])]

\* callProvider(provider, request): 'claude' and 'local' both go to
\* claudeService.analyzeMarket, 'deepseek' to deepSeekService.analyzeMarket
callProvider(a, provider) ==
  LET c == ServiceBegin(a, provider)
      run1 == [a.run EXCEPT
                 !.calls[provider] = c,
                 !.tried = Append(@, provider),
                 !.remote = IF c.pc = "api"
                            THEN Append(@, [provider |-> provider, api |-> c.api])
                            ELSE @]
  IN [a EXCEPT !.run = IF c.pc = "settled" THEN Attempted(run1, provider, "unasked", c.result)
                       ELSE run1]

\* getProviderOrder(preferred)
getProviderOrder(a, preferred) ==
  CASE preferred = "claude" -> <<"claude", "deepseek", "local">>
    [] preferred = "deepseek" -> <<"deepseek", "claude", "local">>
    [] OTHER -> a.providerPriority

AsWrittenOrEmpty(field) == IF field.t = "text" THEN field.v ELSE <<>>

\* claude.recommendation?.toLowerCase() || ''
LowerOrEmpty(field) == IF field.t = "text" THEN ToLowerCase(field.v) ELSE <<>>
\* parseFloat(keyLevels?.entry || '0')
EntryOf(raw) == IF RawTruthy(raw) THEN ParseFloat(raw) ELSE Fin(0)
\* a <= n and a < n for a number a that is not negative, and an integer n
AtMost(a, n) == a.k = "fin" /\ a.v <= n
LessThan(a, n) == a.k = "fin" /\ a.v < n
\* 0.01 in the unit of prices
EntryTolerance == 1000

ComparisonSummary(agreement) ==
  IF agreement >= 80 THEN "Alto consenso entre modelos de IA"
  ELSE IF agreement >= 60 THEN "Consenso moderado"
  ELSE IF agreement >= 40 THEN "Consenso parcial"
  ELSE "Bajo consenso"

\* compareAnalyses(claude, deepseek)
compareAnalyses(claude, deepseek) ==
  LET claudeRec == LowerOrEmpty(claude.recommendation)
      deepseekRec == LowerOrEmpty(deepseek.recommendation)
      Both(word) == Includes(claudeRec, word) /\ Includes(deepseekRec, word)
      recommendationMatch ==
        \/ Both(Chars("buy"))
        \/ Both(Chars("sell"))
        \/ Both(Chars("hold"))
      claudeConfidence == OrElse(claude.confidence, Fin(5))
      deepseekConfidence == OrElse(deepseek.confidence, Fin(5))
      confidenceDiff == AbsNum(Minus(claudeConfidence, deepseekConfidence))
      entryDiff == AbsNum(Minus(EntryOf(claude.entry), EntryOf(deepseek.entry)))
      agreement ==
        (IF recommendationMatch THEN 50 ELSE 0)
        + (IF AtMost(confidenceDiff, 2) THEN 25 ELSE 0)
        + (IF AtMost(confidenceDiff, 1) THEN 15 ELSE 0)
        + (IF LessThan(entryDiff, EntryTolerance) THEN 10 ELSE 0)
  IN [agreement |-> agreement, recommendationMatch |-> recommendationMatch,
      confidenceDiff |-> confidenceDiff, summary |-> ComparisonSummary(agreement)]

\* what analyzeMarket resolves with
MultiAnalysisResult(primary, secondary, compared, provider, fallbackUsed) ==
  [primary |-> primary, secondary |-> secondary, comparison |-> compared,
   provider |-> provider, fallbackUsed |-> fallbackUsed]

Finish(a, outcome) == [a EXCEPT !.run.pc = "done", !.run.outcome = outcome]

SingleResultUnflagged(result, provider, index) ==
  MultiAnalysisResult(result, Null, Null, provider, FALSE)

\* runSingleAnalysis on a success: if (index > 0) fallbackUsed = true; return
SingleResult(result, provider, index) ==
  MultiAnalysisResult(result, Null, Null, provider, index > 1)

AllFailedUnexplained(lastError) == Threw("All AI providers failed")

\* runSingleAnalysis past the loop:
\* throw new Error(`All AI providers failed. Last error: ${lastError?.message}`)
AllFailed(lastError) == Threw("All AI providers failed. Last error: " \o lastError)

\* runSingleAnalysis from the top of the loop body for providers[index] to the
\* next await that has to wait, or to the end
RECURSIVE SingleLoop(_)
SingleLoop(a) ==
  LET run == a.run
  IN IF run.index > Len(run.providers)
     THEN Finish(a, AllFailed(run.lastError))
     ELSE LET provider == run.providers[run.index]
              c == run.calls[provider]
          IN CASE c.pc = "none" -> SingleLoop(callProvider(a, provider))
               [] c.pc = "api" -> a
               [] c.pc = "settled" ->
                    IF c.result.ok
                    THEN Finish(a, Returned(SingleResult(c.result.value, provider, run.index)))
                    ELSE SingleLoop([a EXCEPT !.run.lastError = c.result.message,
                                              !.run.index = @ + 1,
                                              !.run.calls = [p \in AIProviders |-> NoCall]])

\* runSingleAnalysis(request, preferredProvider, startTime)
runSingleAnalysis(a, preferredProvider) ==
  SingleLoop([a EXCEPT !.run.pc = "single",
                       !.run.providers = getProviderOrder(a, preferredProvider),
                       !.run.index = 1])

\* callProvider(...).catch(err => ({ error: err.message, provider })), settled
Caught(result) ==
  IF result.ok THEN result.value
  ELSE AnalysisResponse(NoText, Undefined, Missing, "", TRUE)
SucceededWhatever(value) == TRUE

\* status === 'fulfilled' && !value.error
Succeeded(value) == ~value.error

\* a result that reports a fallback whether or not it carries a comparison
ComparativeResultFlagged(primary, secondary, compared) ==
  MultiAnalysisResult(primary, secondary, compared,
                      IF compared # Null THEN "claude+deepseek"
                      ELSE IF primary.source # "" THEN primary.source ELSE "unknown",
                      TRUE)

\* what runComparativeAnalysis returns:
\* provider: comparison ? 'claude+deepseek' : primary.source || 'unknown',
\* fallbackUsed: !comparison
ComparativeResult(primary, secondary, compared) ==
  MultiAnalysisResult(primary, secondary, compared,
                      IF compared # Null THEN "claude+deepseek"
                      ELSE IF primary.source # "" THEN primary.source ELSE "unknown",
                      compared = Null)

\* runComparativeAnalysis once both promises have settled
AfterAllSettled(a) ==
  LET claudeResult == Caught(a.run.calls["claude"].result)
      deepSeekResult == Caught(a.run.calls["deepseek"].result)
  IN IF Succeeded(claudeResult)
     THEN (IF Succeeded(deepSeekResult)
           THEN Finish(a, Returned(ComparativeResult(
                            claudeResult, deepSeekResult,
                            compareAnalyses(claudeResult, deepSeekResult))))
           ELSE Finish(a, Returned(ComparativeResult(claudeResult, Null, Null))))
     ELSE IF Succeeded(deepSeekResult)
     THEN Finish(a, Returned(ComparativeResult(deepSeekResult, Null, Null)))
     ELSE callProvider([a EXCEPT !.run.pc = "local"], "local")

\* runComparativeAnalysis from wherever it stands to the next await that has
\* to wait, or to the end
RECURSIVE ComparativeSteps(_)
ComparativeSteps(a) ==
  LET run == a.run
  IN CASE run.pc = "comparative" ->
            IF run.calls["claude"].pc = "settled" /\ run.calls["deepseek"].pc = "settled"
            THEN ComparativeSteps(AfterAllSettled(a))
            ELSE a
       [] run.pc = "local" ->
            LET c == run.calls["local"]
            IN IF c.pc # "settled" THEN a
               ELSE IF c.result.ok
               THEN Finish(a, Returned(ComparativeResult(c.result.value, Null, Null)))
               ELSE Finish(a, c.result)
       [] OTHER -> a

\* runComparativeAnalysis(request, startTime)
runComparativeAnalysis(a) ==
  ComparativeSteps(callProvider(callProvider([a EXCEPT !.run.pc = "comparative"], "claude"),
                                "deepseek"))

\* MultiAIAnalysisService.analyzeMarket(request), up to its first wait
analyzeMarket(a, request) ==
  LET preferredProvider == request.preferredProvider
      fresh == [a EXCEPT !.run = [IdleRun EXCEPT !.request = request]]
  IN IF preferredProvider = "both" \/ request.compareResults
     THEN runComparativeAnalysis(fresh)
     ELSE runSingleAnalysis(fresh, preferredProvider)

\* the invocation goes on after an awaited callProvider settled
Continue(a) ==
  IF a.run.pc = "single" THEN SingleLoop(a) ELSE ComparativeSteps(a)

\* the API request behind callProvider(provider) is answered
ApiSettles(a, provider, answer, result) ==
  Continue([a EXCEPT !.run = Attempted([@ EXCEPT !.calls[provider] = Settled(result)],
                                       provider, answer.kind, result)])

\* ------------------------------------------------------------ analysis runs
\* the quotes the requests of a run carry: gold up 0.6 %, a dollar cross down
\* 0.25 %, an index flat
AnalysisQuotes ==
  {Quote("XAUUSD", Fin(fallbackBase("XAUUSD")), Fin(1400000), Fin(600)),
   Quote("EURUSD", Fin(fallbackBase("EURUSD")), Fin(-270), Fin(-250)),
   Quote("SPX500", Fin(fallbackBase("SPX500")), Fin(0), Fin(0))}
\* queries: none, one that mentions gold, one that does not
Queries ==
  {NoText,
   Text(Chars("Comprar ORO?")),
   Text(Chars("Sube?"))}
PreferredProviders == {"auto", "claude", "deepseek", "local", "both"}

AnalysisRequest(query, symbol, marketData, preferredProvider, compareResults) ==
  [query |-> query, symbol |-> symbol, marketData |-> marketData,
   preferredProvider |-> preferredProvider, compareResults |-> compareResults]
\* what the handlers take from the caller and the quote chain: the socket
\* handlers pass on a missing query or symbol
RequestData ==
  {<<query, marketData.symbol, marketData>> :
     query \in Queries \ {NoText}, marketData \in AnalysisQuotes}
  \cup {<<NoText, marketData.symbol, marketData>> :
          marketData \in {q \in AnalysisQuotes : q.symbol = "EURUSD"}}
  \cup {<<query, NoSymbol, marketData>> :
          query \in Queries \ {NoText},
          marketData \in {q \in AnalysisQuotes : q.symbol = "EURUSD"}}
\* preferredProvider and compareResults; the handlers set compareResults
\* whenever they ask for 'both'
Modes == (PreferredProviders \X {FALSE}) \cup {<<"auto", TRUE>>, <<"both", TRUE>>}
AnalysisRequests ==
  {AnalysisRequest(data[1], data[2], data[3], mode[1], mode[2]) :
     data \in RequestData, mode \in Modes}

\* replies of the remote models, parsed: two full analyses that differ, one
\* with fields left out, and an object that reports an error
ApiBodies ==
  {AnalysisResponse(Text(Chars("BUY")), Fin(8), Numeral(108450), "", FALSE),
   AnalysisResponse(Text(Chars("Sell")), Fin(6), Numeral(108300), "", FALSE),
   AnalysisResponse(NoText, Undefined, Missing, "", FALSE),
   AnalysisResponse(NoText, Undefined, Missing, "", TRUE)}
ApiAnswers == {ApiThrew, ApiNoContent, ApiNotJson} \cup {ApiJson(body) : body \in ApiBodies}

\* the lists setProviderPriority is given
Priorities ==
  {DefaultPriority, <<"deepseek", "local", "claude">>, <<"local", "claude">>, <<"deepseek">>, <<>>}

InitAI ==
  /\ Start
  /\ asked = {"EURUSD"}
  /\ outage = {}
  /\ \E anthropicKey \in BOOLEAN, deepseekKey \in BOOLEAN :
       ai = Constructed(anthropicKey, deepseekKey)
  /\ comparison = Null
  /\ indicator = Null /\ history = Null /\ local = Null /\ driver = Null

\* multiAIService.analyzeMarket(request)
MultiAnalyzeMarket(request) ==
  /\ ai.run.pc \in {"idle", "done"}
  /\ ai' = analyzeMarket(ai, request)
  /\ UNCHANGED <<now, cache, fhCache, call, callsLeft, lastSet, asked, probe, bulk, outage, req, comparison, indicator, history, local, driver>>

\* the Anthropic API answers the request sent for `provider`
ClaudeApiResponse(provider, answer) ==
  /\ ai.run.calls[provider].pc = "api"
  /\ ai.run.calls[provider].api = "anthropic"
  /\ ai' = ApiSettles(ai, provider, answer, ClaudeFinish(ai.run.request, answer))
  /\ UNCHANGED <<now, cache, fhCache, call, callsLeft, lastSet, asked, probe, bulk, outage, req, comparison, indicator, history, local, driver>>

\* the DeepSeek API answers
DeepSeekApiResponse(answer) ==
  /\ ai.run.calls["deepseek"].pc = "api"
  /\ ai' = ApiSettles(ai, "deepseek", answer, DeepSeekFinish(answer))
  /\ UNCHANGED <<now, cache, fhCache, call, callsLeft, lastSet, asked, probe, bulk, outage, req, comparison, indicator, history, local, driver>>

\* setProviderPriority(priority)
SetProviderPriority(priority) ==
  /\ ai' = [ai EXCEPT !.providerPriority = priority]
  /\ UNCHANGED <<now, cache, fhCache, call, callsLeft, lastSet, asked, probe, bulk, outage, req, comparison, indicator, history, local, driver>>

NextAI ==
  \/ \E request \in AnalysisRequests : MultiAnalyzeMarket(request)
  \/ \E provider \in {"claude", "local"}, answer \in ApiAnswers :
       ClaudeApiResponse(provider, answer)
  \/ \E answer \in ApiAnswers : DeepSeekApiResponse(answer)
  \/ \E priority \in Priorities : SetProviderPriority(priority)

SpecAI == InitAI /\ [][NextAI]_vars

\* ------------------------------------------------------------ compareAnalyses alone
\* recommendations as the remote models and the local analysis word them, and
\* none at all
Recommendations ==
  {NoText, Text(Chars("BUY")), Text(Chars("Sell")),
   Text(Chars("HOLD - Neutral")), Text(Chars("WAIT - Risk-off"))}
\* confidences: none, and 0 to MaxConfidence
Confidences == {Undefined} \cup {Fin(i) : i \in 0..MaxConfidence}
\* entry levels: none, text that is no number, and three prices 0.00999 and
\* 0.01 apart
Entries ==
  {Missing, Garbage, Numeral(108450), Numeral(109449), Numeral(109450)}
Analyses ==
  {AnalysisResponse(recommendation, confidence, entry, "", FALSE) :
     recommendation \in Recommendations, confidence \in Confidences, entry \in Entries}

InitCompare ==
  /\ Start
  /\ asked = {"EURUSD"}
  /\ outage = {}
  /\ ai = NoService
  /\ \E claude \in Analyses, deepseek \in Analyses :
       comparison = [claude |-> Parsed(claude, "claude-api"),
                     deepseek |-> Parsed(deepseek, "deepseek-api"), result |-> Null]
  /\ indicator = Null /\ history = Null /\ local = Null /\ driver = Null

\* this.compareAnalyses(primary, secondary)
CompareAnalyses ==
  /\ comparison # Null
  /\ comparison.result = Null
  /\ comparison' = [comparison EXCEPT !.result = compareAnalyses(comparison.claude,
                                                                 comparison.deepseek)]
  /\ UNCHANGED <<now, cache, fhCache, call, callsLeft, lastSet, asked, probe, bulk, outage,
                 req, ai, indicator, history, local, driver>>

NextCompare == CompareAnalyses

SpecCompare == InitCompare /\ [][NextCompare]_vars

\* ------------------------------------------------------------ indicator engine
\* The calculate* methods of the first MarketDataService. A price, and every
\* value the engine returns with four decimals, is an integer count of 0.0001;
\* the RSI, returned with two decimals, is an integer count of 0.01. The
\* arithmetic in between is exact: a quotient is carried as numerator and
\* denominator, a square root as its radicand, until the method rounds.
\* Math.round(x) is RoundDiv: the nearest integer, halves upwards.
RECURSIVE GainsAbsolute(_, _), Gains(_, _), Losses(_, _), EmaLoop(_, _, _)
RECURSIVE VolPriceUnweighted(_, _), VolPrice(_, _), Volume(_, _), Sum(_, _), SumSquares(_, _)

MaxLen == 3      \* the longest price series handed to the engine
MaxPrice == 3    \* the highest price of a series, in price steps
PriceStep == 10  \* the distance of two neighbouring prices, in units of 0.0001
MaxPeriod == 3   \* the longest period asked for
MaxVolume == 2   \* the greatest volume of a bar

\* the difference taken the other way round
ChangeReversed(prices, i) == prices[i] - prices[i + 1]

\* prices[i] - prices[i - 1] for the loop index i of calculateRSI (the series
\* is 0-based there, 1-based here)
Change(prices, i) == prices[i + 1] - prices[i]

\* every change counted as a gain, whatever its sign
GainsAbsolute(prices, i) ==
  IF i = 0 THEN 0
  ELSE GainsAbsolute(prices, i - 1)
         + (IF Change(prices, i) > 0 THEN Change(prices, i) ELSE 0 - Change(prices, i))

\* gains after the loop has run from 1 to i
Gains(prices, i) ==
  IF i = 0 THEN 0
  ELSE Gains(prices, i - 1) + (IF Change(prices, i) > 0 THEN Change(prices, i) ELSE 0)

\* losses after the loop has run from 1 to i
Losses(prices, i) ==
  IF i = 0 THEN 0
  ELSE Losses(prices, i - 1) + (IF Change(prices, i) > 0 THEN 0 ELSE 0 - Change(prices, i))

\* calculateRSI(prices, period), in units of 0.01. With avgGain = gains / period,
\* avgLoss = losses / period and rs = avgGain / avgLoss,
\* (100 - 100 / (1 + rs)) * 100 is 10000 * gains / (gains + losses).
calculateRSI(prices, period) ==
  IF Len(prices) < period + 1 THEN 5000
  ELSE LET gains == Gains(prices, period)
           losses == Losses(prices, period)
       IN  IF losses = 0 THEN 10000
           ELSE RoundDiv(10000 * gains, gains + losses)

\* ema after the loop of calculateEMA has taken in the first i prices:
\* prices[i] * multiplier + ema * (1 - multiplier), multiplier = 2 / (period + 1)
EmaLoop(prices, period, i) ==
  IF i = 1 THEN [n |-> prices[1], d |-> 1]
  ELSE LET ema == EmaLoop(prices, period, i - 1)
       IN  [n |-> (2 * prices[i] * ema.d) + ((period - 1) * ema.n), d |-> ema.d * (period + 1)]

\* calculateEMA(prices, period), as numerator and denominator
calculateEMA(prices, period) ==
  IF Len(prices) = 0 THEN [n |-> 0, d |-> 1] ELSE EmaLoop(prices, period, Len(prices))

\* what calculateMACD holds before it rounds: macd = ema12 - ema26,
\* signal = macd * 0.9, histogram = macd - signal, each over its denominator
MACDExact(prices) ==
  LET ema12 == calculateEMA(prices, 12)
      ema26 == calculateEMA(prices, 26)
      macd == [n |-> (ema12.n * ema26.d) - (ema26.n * ema12.d), d |-> ema12.d * ema26.d]
      signal == [n |-> macd.n * 9, d |-> macd.d * 10]
      histogram == [n |-> (macd.n * 10) - signal.n, d |-> macd.d * 10]
  IN  [macd |-> macd, signal |-> signal, histogram |-> histogram]

\* calculateMACD(prices): each of the three rounded by itself
calculateMACD(prices) ==
  LET exact == MACDExact(prices)
  IN  [macd |-> RoundDiv(exact.macd.n, exact.macd.d),
       signal |-> RoundDiv(exact.signal.n, exact.signal.d),
       histogram |-> RoundDiv(exact.histogram.n, exact.histogram.d)]

\* the sum of high + low + close over the first i bars, volumes left out
VolPriceUnweighted(ohlcData, i) ==
  IF i = 0 THEN 0
  ELSE VolPriceUnweighted(ohlcData, i - 1)
         + (ohlcData[i].high + ohlcData[i].low + ohlcData[i].close)

\* three times totalVolPrice after the first i bars: the sum of
\* (high + low + close) * volume
VolPrice(ohlcData, i) ==
  IF i = 0 THEN 0
  ELSE VolPrice(ohlcData, i - 1)
         + ((ohlcData[i].high + ohlcData[i].low + ohlcData[i].close) * ohlcData[i].volume)

\* totalVolume after the first i bars
Volume(ohlcData, i) ==
  IF i = 0 THEN 0 ELSE Volume(ohlcData, i - 1) + ohlcData[i].volume

\* calculateVWAP(ohlcData)
calculateVWAP(ohlcData) ==
  LET totalVolPrice3 == VolPrice(ohlcData, Len(ohlcData))
      totalVolume == Volume(ohlcData, Len(ohlcData))
  IN  IF totalVolume > 0 THEN RoundDiv(totalVolPrice3, 3 * totalVolume) ELSE 0

\* the series as it is, whatever the period
WholeSeries(prices, period) == prices

\* prices.slice(-period), period > 0
SliceLast(prices, period) ==
  IF Len(prices) <= period THEN prices
  ELSE SubSeq(prices, (Len(prices) - period) + 1, Len(prices))

\* reduce((sum, price) => sum + price, 0) over the first i prices
Sum(prices, i) == IF i = 0 THEN 0 ELSE Sum(prices, i - 1) + prices[i]

SumSquares(prices, i) ==
  IF i = 0 THEN 0 ELSE SumSquares(prices, i - 1) + (prices[i] * prices[i])

\* calculateSMA(prices, period), as numerator and denominator; 0 / 0 for no price
calculateSMA(prices, period) ==
  LET relevantPrices == SliceLast(prices, period)
  IN  [n |-> Sum(relevantPrices, Len(relevantPrices)), d |-> Len(relevantPrices)]

\* calculateStandardDeviation(prices) for at least one price: sqrt(radicand) / d.
\* The mean of the squared differences from the mean S / n is
\* (n * sum of squares - S * S) / (n * n).
calculateStandardDeviation(prices) ==
  LET n == Len(prices)
      S == Sum(prices, n)
  IN  [radicand |-> (n * SumSquares(prices, n)) - (S * S), d |-> n]

\* the greatest r with r * r <= x, and the least r with r * r >= x, for 0 <= x <= top * top
FloorSqrt(x, top) == CHOOSE r \in 0..top : r * r <= x /\ (r + 1) * (r + 1) > x
CeilSqrt(x, top) == CHOOSE r \in 0..top : r * r >= x /\ (r = 0 \/ (r - 1) * (r - 1) < x)

\* the highest price of a series less the lowest
Spread(prices) ==
  LET S == {prices[i] : i \in 1..Len(prices)}
  IN  (CHOOSE h \in S : \A p \in S : p <= h) - (CHOOSE l \in S : \A p \in S : l <= p)

\* calculateBollingerBands(prices, period); every field is NaN for no price.
\* With sma = S / n and stdDev = sqrt(D) / n, the integer nearest
\* (S + 2 * sqrt(D)) / n is the floor of (2 * S + n + 4 * sqrt(D)) / (2 * n),
\* and the one nearest (S - 2 * sqrt(D)) / n the floor of
\* (2 * S + n - 4 * sqrt(D)) / (2 * n).
calculateBollingerBands(prices, period) ==
  IF Len(prices) = 0 THEN [upper |-> NaN, middle |-> NaN, lower |-> NaN]
  ELSE LET sma == calculateSMA(prices, period)
           stdDev == calculateStandardDeviation(SliceLast(prices, period))
           top == 4 * stdDev.d * Spread(SliceLast(prices, period))
       IN  [upper |-> ((2 * sma.n) + sma.d + FloorSqrt(16 * stdDev.radicand, top))
                        \div (2 * sma.d),
            middle |-> RoundDiv(sma.n, sma.d),
            lower |-> ((2 * sma.n) + sma.d - CeilSqrt(16 * stdDev.radicand, top))
                        \div (2 * sma.d)]

\* the highs of the bars taken for their closes
Highs(ohlcData) == [i \in DOMAIN ohlcData |-> ohlcData[i].high]

\* ohlcData.map(d => d.close)
Closes(ohlcData) == [i \in DOMAIN ohlcData |-> ohlcData[i].close]

\* Math.max(...prices) and Math.min(...prices) of at least one price
MaxOf(prices) ==
  CHOOSE h \in {prices[i] : i \in DOMAIN prices} : \A i \in DOMAIN prices : prices[i] <= h
MinOf(prices) ==
  CHOOSE l \in {prices[i] : i \in DOMAIN prices} : \A i \in DOMAIN prices : l <= prices[i]

\* calculateFibonacci(ohlcData), in units of 0.0001. For no bar Math.max() is
\* -Infinity and Math.min() Infinity, the range -Infinity and every level NaN.
calculateFibonacci(ohlcData) ==
  IF Len(ohlcData) = 0 THEN [level618 |-> NaN, level50 |-> NaN, level382 |-> NaN]
  ELSE LET prices == Closes(ohlcData)
           high == MaxOf(prices)
           low == MinOf(prices)
           range == high - low
       IN  [level618 |-> RoundDiv((1000 * high) - (618 * range), 1000),
            level50 |-> RoundDiv((1000 * high) - (500 * range), 1000),
            level382 |-> RoundDiv((1000 * high) - (382 * range), 1000)]

\* the price series handed to the engine: up to MaxLen prices, each a number
\* of price steps
Prices == {PriceStep * k : k \in 1..MaxPrice}
PriceSeries == UNION {[1..n -> Prices] : n \in 0..MaxLen}
\* the series handed to calculateMACD are one price shorter: every further
\* price multiplies the denominators of the two averages by 13 and by 27
ShorterSeries == {prices \in PriceSeries : Len(prices) < MaxLen}
Periods == 1..MaxPeriod
\* the fifteen closes of the worked RSI example, 44 to 46.0, and its period
ExampleCloses ==
  <<440000, 445000, 430000, 442500, 445000, 437500, 446500, 451200, 458400, 460800,
    458900, 460300, 456100, 462800, 460000>>
ExamplePeriod == 14
\* bars: low <= close <= high, any volume from none to MaxVolume
Bars ==
  {[high |-> h, low |-> l, close |-> c, volume |-> v] :
     h \in Prices, l \in Prices, c \in Prices, v \in 0..MaxVolume}
WellFormedBars == {b \in Bars : b.low <= b.close /\ b.close <= b.high}
\* no bar, one bar, two bars
BarLists ==
  {<<>>} \cup {<<b>> : b \in WellFormedBars}
         \cup {<<a, b>> : a \in WellFormedBars, b \in WellFormedBars}

IndicatorCall(method, prices, period, ohlcData) ==
  [pc |-> "called", method |-> method, prices |-> prices, period |-> period,
   ohlcData |-> ohlcData, result |-> Null]
IndicatorCalls ==
  {IndicatorCall("calculateRSI", prices, period, <<>>) : prices \in PriceSeries, period \in Periods}
    \cup {IndicatorCall("calculateRSI", ExampleCloses, ExamplePeriod, <<>>)}
    \cup {IndicatorCall("calculateMACD", prices, 0, <<>>) : prices \in ShorterSeries}
    \cup {IndicatorCall("calculateBollingerBands", prices, period, <<>>) :
            prices \in PriceSeries, period \in Periods}
    \cup {IndicatorCall("calculateVWAP", <<>>, 0, ohlcData) : ohlcData \in BarLists}
    \cup {IndicatorCall("calculateFibonacci", <<>>, 0, ohlcData) : ohlcData \in BarLists}

InitIndicator ==
  /\ Start
  /\ asked = {"EURUSD"}
  /\ outage = {}
  /\ ai = NoService
  /\ comparison = Null
  /\ indicator \in IndicatorCalls
  /\ history = Null
  /\ local = Null /\ driver = Null

\* the method has been called and has not returned
Uncalled(method) == indicator # Null /\ indicator.method = method /\ indicator.pc = "called"
Return(value) == [indicator EXCEPT !.pc = "returned", !.result = value]

Elsewhere == <<now, cache, fhCache, call, callsLeft, lastSet, asked, probe, bulk, outage, req, ai,
            comparison>>

CalculateRSI ==
  /\ Uncalled("calculateRSI")
  /\ indicator' = Return(calculateRSI(indicator.prices, indicator.period))
  /\ UNCHANGED <<Elsewhere, history, local, driver>>

CalculateMACD ==
  /\ Uncalled("calculateMACD")
  /\ indicator' = Return(calculateMACD(indicator.prices))
  /\ UNCHANGED <<Elsewhere, history, local, driver>>

CalculateVWAP ==
  /\ Uncalled("calculateVWAP")
  /\ indicator' = Return(calculateVWAP(indicator.ohlcData))
  /\ UNCHANGED <<Elsewhere, history, local, driver>>

CalculateBollingerBands ==
  /\ Uncalled("calculateBollingerBands")
  /\ indicator' = Return(calculateBollingerBands(indicator.prices, indicator.period))
  /\ UNCHANGED <<Elsewhere, history, local, driver>>

CalculateFibonacci ==
  /\ Uncalled("calculateFibonacci")
  /\ indicator' = Return(calculateFibonacci(indicator.ohlcData))
  /\ UNCHANGED <<Elsewhere, history, local, driver>>

NextIndicator ==
  \/ CalculateRSI
  \/ CalculateMACD
  \/ CalculateVWAP
  \/ CalculateBollingerBands
  \/ CalculateFibonacci

SpecIndicator == InitIndicator /\ [][NextIndicator]_vars

\* ------------------------------------------------------------ bar series store
\* getHistoricalData of both services. Prices are counted in units of 0.00001,
\* as in getFallbackPrice; what the loop carries from bar to bar is kept to
\* that unit, and a bar's four prices are rounded to 0.0001 as the code rounds
\* them. The outcomes of Math.random() are fixed when the run begins.
RECURSIVE Walk(_, _, _, _, _, _, _)

MaxBars == 2     \* the longest series asked for
MaxWaits == 2    \* how often the run lets time pass between two calls
HistoryTtl == 300
timeInterval == 3600000

\* the instrument with the greatest volatility, and an unknown one
HistorySymbols == {"NAS100", UnknownSymbol}
Timeframes == {"1H", "1D"}
HistoryRequests ==
  {[symbol |-> S, timeframe |-> timeframe, outputsize |-> n] :
     S \in HistorySymbols, timeframe \in Timeframes, n \in 0..MaxBars}

\* `historical:${symbol}:${timeframe}:${outputsize}`
HistoricalKey(request) ==
  "historical:" \o request.symbol \o ":" \o request.timeframe \o ":"
    \o ToString(request.outputsize)

\* the four draws one pass of the loop takes for the prices of its bar
BarDraws ==
  [walk : RandomDraws, high : RandomDraws, low : RandomDraws, close : RandomDraws]
\* the draw of getFallbackPrice, those of `periods` passes of the loop, and the
\* draw of getEstimatedVolume, taken alike for every bar of the run
RandomOutcomes(periods) ==
  [start : RandomDraws, bars : [1..periods -> BarDraws], volume : RandomDraws]

\* getEstimatedVolume(symbol); r is Math.random()
volumes(S) ==
  CASE S = "EURUSD" -> 150000000
    [] S = "GBPUSD" -> 80000000
    [] S = "USDJPY" -> 120000000
    [] S = "XAUUSD" -> 25000000
    [] S = "SPX500" -> 45000000
    [] S = "NAS100" -> 35000000
    [] S = "GER40" -> 15000000
    [] OTHER -> 0
getEstimatedVolume(S, r) ==
  \* volumes[symbol] is undefined for an unknown symbol, the product NaN
  IF S \notin Symbols THEN 10000000
  ELSE (volumes(S) \div 10000) * (8000 + (4 * r))

\* Math.round(x * 10000) / 10000 for x in units of 0.00001
Round4(x) == RoundDiv(x, 10) * 10

\* the high of a bar taken below its open by the drawn share of the variation
HighBelowOpen(symbol, open, r) ==
  open - MulDiv(MulDiv(open, r, 1000), getVolatility(symbol), 1000)

\* high = open * (1 + Math.random() * variation), variation = volatility / 100
HighOf(symbol, open, r) ==
  open + MulDiv(MulDiv(open, r, 1000), getVolatility(symbol), 1000)

\* one pass of the loop body of generateHistoricalData from the price carried in
BarStep(symbol, price, d) ==
  LET \* priceChange = (Math.random() - 0.5) * volatility / 50; price *= 1 + priceChange
      open == price + MulDiv(MulDiv(price, d.walk - 500, 1000), getVolatility(symbol), 500)
      high == HighOf(symbol, open, d.high)
      low == open - MulDiv(MulDiv(open, d.low, 1000), getVolatility(symbol), 1000)
      close == low + MulDiv(high - low, d.close, 1000)
  IN  [open |-> open, high |-> high, low |-> low, close |-> close]

\* the timestamp of the pass with loop variable i, at time t
TimestampOf(t, i) == t - (i * timeInterval)

\* the passes j, j + 1, ... of the loop (the first pass is j = 1, its loop
\* variable periods - 1), at time t
Walk(symbol, price, j, periods, t, draws, v) ==
  IF j > periods THEN <<>>
  ELSE LET b == BarStep(symbol, price, draws[j])
       IN  <<[timestamp |-> TimestampOf(t, periods - j),
              open |-> Round4(b.open), high |-> Round4(b.high),
              low |-> Round4(b.low), close |-> Round4(b.close),
              volume |-> getEstimatedVolume(symbol, v)]>>
             \o Walk(symbol, b.close, j + 1, periods, t, draws, v)

\* generateHistoricalData(symbol, periods) at time t
generateHistoricalData(symbol, periods, t, random) ==
  Walk(symbol, getFallbackPrice(symbol, random.start).price.v, 1, periods, t, random.bars,
       random.volume)

\* an OHLCData[] as a value held in the cache or returned
Series(bars) == [bars |-> bars]
HistoryReturn(service, request, hit, series) ==
  [service |-> service, request |-> request, hit |-> hit, series |-> series]

InitHistory ==
  /\ Start
  /\ asked = {"EURUSD"}
  /\ outage = {}
  /\ ai = NoService
  /\ comparison = Null
  /\ indicator = Null
  /\ \E request \in HistoryRequests :
       \E random \in RandomOutcomes(request.outputsize) :
         history = [request |-> request, random |-> random, cache |-> EmptyMap,
                    synthesized |-> 0, last |-> Null, made |-> EmptyMap]
  /\ local = Null /\ driver = Null

\* getHistoricalData(symbol, timeframe, outputsize) of the first service
GetHistoricalData ==
  /\ history # Null
  /\ LET request == history.request
         cacheKey == HistoricalKey(request)
         read == GetCache(history.cache, cacheKey, now)
     IN  IF read.val # Null
         THEN history' = [history EXCEPT !.cache = read.map,
                            !.last = HistoryReturn("first", request, TRUE, read.val)]
         ELSE LET data == Series(generateHistoricalData(request.symbol, request.outputsize,
                                                        now, history.random))
              IN  history' = [history EXCEPT
                                !.cache = SetCache(read.map, cacheKey, data, HistoryTtl, now),
                                !.synthesized = @ + 1,
                                !.last = HistoryReturn("first", request, FALSE, data),
                                !.made = PutLast(@, request, [series |-> data, at |-> now])]
  /\ UNCHANGED <<Elsewhere, indicator, local, driver>>

\* getHistoricalData(symbol, timeframe, outputsize) of the multi-source service
GetHistoricalDataMulti ==
  /\ history # Null
  /\ history' = [history EXCEPT
                   !.last = HistoryReturn("multi-source", history.request, FALSE, Series(<<>>))]
  /\ UNCHANGED <<Elsewhere, indicator, local, driver>>

\* two thirds of the time a series is kept for go by
Wait ==
  /\ history # Null
  /\ now < MaxWaits * ((2 * HistoryTtl * MsPerSecond) \div 3)
  /\ now' = now + ((2 * HistoryTtl * MsPerSecond) \div 3)
  /\ UNCHANGED <<cache, fhCache, call, callsLeft, lastSet, asked, probe, bulk, outage, req, ai,
                 comparison, indicator, history, local, driver>>

NextHistory == GetHistoricalData \/ GetHistoricalDataMulti \/ Wait

SpecHistory == InitHistory /\ [][NextHistory]_vars

\* several calls of getHistoricalData in a row, with arguments that differ.
\* The base request, one that differs from it in the timeframe, one that
\* differs in the length, and two that differ from one another in the symbol
\* and the timeframe (getHistoricalData takes any two strings).
SeriesRequests ==
  {[symbol |-> "NAS100", timeframe |-> "1H", outputsize |-> MaxBars],
   [symbol |-> "NAS100", timeframe |-> "1D", outputsize |-> MaxBars],
   [symbol |-> "NAS100", timeframe |-> "1H", outputsize |-> MaxBars - 1],
   [symbol |-> "NAS100", timeframe |-> "1H:1D", outputsize |-> MaxBars],
   [symbol |-> "NAS100:1H", timeframe |-> "1D", outputsize |-> MaxBars]}

\* every Math.random() of the run has the same outcome
SameDraws(r) ==
  [start |-> r,
   bars |-> [j \in 1..MaxBars |-> [walk |-> r, high |-> r, low |-> r, close |-> r]],
   volume |-> r]

InitSeries ==
  /\ Start
  /\ asked = {"EURUSD"}
  /\ outage = {}
  /\ ai = NoService
  /\ comparison = Null
  /\ indicator = Null
  /\ \E request \in SeriesRequests, r \in RandomDraws :
       history = [request |-> request, random |-> SameDraws(r), cache |-> EmptyMap,
                  synthesized |-> 0, last |-> Null, made |-> EmptyMap]
  /\ local = Null /\ driver = Null

\* the caller turns to other arguments for its next call
Ask ==
  /\ history # Null
  /\ \E request \in SeriesRequests \ {history.request} :
       history' = [history EXCEPT !.request = request]
  /\ UNCHANGED <<Elsewhere, indicator, local, driver>>

NextSeries == GetHistoricalData \/ Wait \/ Ask

SpecSeries == InitSeries /\ [][NextSeries]_vars

\* ------------------------------------------------------------ local analysis alone
\* changePercent in thousandths of a percent: no number, and the values at and
\* next to the thresholds 0.2, 0.3 and 0.5 of the rules
ChangePercents ==
  {NaN} \cup {Fin(x) : x \in {-501, -500, -301, -300, -201, -200, 0,
                              200, 201, 300, 301, 500, 501}}
LocalRequests ==
  {AnalysisRequest(query, S, Quote(S, Fin(fallbackBase(S)), Fin(0), changePercent),
                   "local", FALSE) :
     query \in Queries \ {NoText}, S \in Symbols, changePercent \in ChangePercents}

InitLocal ==
  /\ Start
  /\ asked = {"EURUSD"}
  /\ outage = {}
  /\ ai = NoService
  /\ comparison = Null
  /\ indicator = Null
  /\ history = Null
  /\ driver = Null
  /\ \E request \in LocalRequests :
       local = [request |-> request, result |-> Null, levels |-> Null]

\* this.enhancedLocalAnalysis(request)
EnhancedLocalAnalysis ==
  /\ local # Null
  /\ local.result = Null
  /\ LET result == enhancedLocalAnalysis(local.request)
     IN  local' = [local EXCEPT
                     !.result = result,
                     !.levels = IF result.ok THEN riskLevels(local.request, result.value)
                                ELSE Null]
  /\ UNCHANGED <<Elsewhere, indicator, history, driver>>

NextLocal == EnhancedLocalAnalysis

SpecLocal == InitLocal /\ [][NextLocal]_vars

\* ------------------------------------------------------------ the price driver (SocketManager)
\* SocketManager owns a MarketDataService of its own; the driver sees of it
\* the quotes its getCurrentPrice returns.
MaxWatched == 2        \* the instruments of the driver's list the model follows
MaxDriverTicks == 3    \* firings of the interval of startPriceUpdates

\* 0.0001, in units of 1e-5
PriceEpsilon == 10

\* the instruments the interval's callback maps over
Watched == {symbols[i] : i \in 1..MaxWatched}

\* how far from the live price a quote is: by nothing, by 0.0001, by 0.00021
PriceMoves == {0, 10, 21}

\* what getCurrentPrice(S) hands the driver, one poll or another
DriverQuotes(S) == {Quote(S, Fin(LivePrice(S) + m), Fin(40), Fin(37)) : m \in PriceMoves}

\* this.lastPriceUpdate[symbol]?.price || 0
lastPrice(lastPriceUpdate, S) ==
  IF S \in DOMAIN lastPriceUpdate THEN OrElse(lastPriceUpdate[S].price, Fin(0)) ELSE Fin(0)

\* a price that differs by 0.0001 or more
priceChangedOrEqual(marketData, last) ==
  /\ marketData.price.k = "fin" /\ last.k = "fin"
  /\ AbsNum(Fin(marketData.price.v - last.v)).v >= PriceEpsilon

\* Math.abs(marketData.price - lastPrice) > 0.0001
priceChanged(marketData, last) ==
  IF marketData.price.k = "fin" /\ last.k = "fin"
  THEN AbsNum(Fin(marketData.price.v - last.v)).v > PriceEpsilon
  ELSE /\ marketData.price.k \in {"fin", "inf", "ninf"}
       /\ last.k \in {"fin", "inf", "ninf"}
       /\ marketData.price.k # last.k

\* after the constructor: startPriceUpdates has set the interval.  `emitted`
\* keeps, per instrument, the quote of the latest priceUpdate the driver
\* emitted and the quote of the one before it; `ticksAtStop` is the number
\* of firings when stop() was called, -1 before.
NewDriver ==
  [priceUpdateInterval |-> TRUE, lastPriceUpdate |-> EmptyMap,
   pending |-> [S \in Watched |-> 0], ticks |-> 0,
   emitted |-> EmptyMap, ticksAtStop |-> -1]

InitDriver ==
  /\ Start
  /\ asked = {"EURUSD"}
  /\ outage = {}
  /\ ai = NoService
  /\ comparison = Null
  /\ indicator = Null
  /\ history = Null
  /\ local = Null
  /\ req = IdleReq
  /\ driver = NewDriver

\* the interval fires: the callback calls getCurrentPrice for every
\* instrument and awaits them
IntervalFires ==
  /\ driver.priceUpdateInterval
  /\ driver.ticks < MaxDriverTicks
  /\ driver' = [driver EXCEPT !.ticks = @ + 1,
                              !.pending = [S \in Watched |-> @[S] + 1]]
  /\ UNCHANGED <<now, cache, fhCache, call, callsLeft, lastSet, asked, probe, bulk, outage,
                 req, ai, comparison, indicator, history, local>>

\* lines 342-358: a getCurrentPrice(S) of some firing returns marketData
PriceArrives(S) ==
  /\ driver.pending[S] > 0
  /\ \E marketData \in DriverQuotes(S) :
       LET changed == priceChanged(marketData, lastPrice(driver.lastPriceUpdate, S))
           before == IF S \in DOMAIN driver.emitted THEN driver.emitted[S].quote ELSE Null
       IN IF changed \/ S \notin DOMAIN driver.lastPriceUpdate
          THEN driver' = [driver EXCEPT
                 !.pending[S] = @ - 1,
                 !.lastPriceUpdate = PutLast(@, S, marketData),
                 !.emitted = PutLast(@, S, [quote |-> marketData, before |-> before])]
          ELSE driver' = [driver EXCEPT !.pending[S] = @ - 1]
  /\ UNCHANGED <<now, cache, fhCache, call, callsLeft, lastSet, asked, probe, bulk, outage,
                 req, ai, comparison, indicator, history, local>>

\* stop(): clearInterval
Stop ==
  /\ driver.ticksAtStop = -1
  /\ driver' = [driver EXCEPT !.priceUpdateInterval = FALSE, !.ticksAtStop = driver.ticks]
  /\ UNCHANGED <<now, cache, fhCache, call, callsLeft, lastSet, asked, probe, bulk, outage,
                 req, ai, comparison, indicator, history, local>>

NextDriver ==
  \/ IntervalFires
  \/ \E S \in Watched : PriceArrives(S)
  \/ Stop

SpecDriver == InitDriver /\ [][NextDriver]_vars

\* ============================================================ properties
\* ------------------------------------------------------------ C1
ReturnedQuoteUsable(q) ==
  /\ IsQuote(q)
  /\ q.price.k = "fin" /\ q.price.v > 0
  /\ q.change.k = "fin"
  /\ q.changePercent.k = "fin"

\* C1: for every symbol of the fixed instrument set, whatever each remote
\* provider does (throws, hands back nothing, hands back an invalid quote),
\* a getCurrentPrice call that has completed has returned a quote with
\* price > 0 and finite change and changePercent; a call never ends in any
\* other way than by returning
FallbackGuarantee ==
  \A c \in Callers :
    /\ call[c].pc \in {"idle", "finnhubHttp", "twelveHttp", "alphaHttp", "done"}
    /\ (call[c].pc = "done" /\ call[c].sym \in Symbols)
         => (ReturnedQuoteUsable(call[c].ret) /\ call[c].ret.symbol = call[c].sym)

\* every remote provider failed, and the call returned the synthetic quote
AllProvidersFailedYetQuoted ==
  \E c \in Callers :
    /\ call[c].pc = "done" /\ call[c].sym \in Symbols
    /\ call[c].trail = <<"finnhub", "twelvedata", "alphavantage", "fallback">>
    /\ call[c].results = <<"failed", "failed", "failed">>
    /\ call[c].last # "absent"
    /\ ReturnedQuoteUsable(call[c].ret)

\* ------------------------------------------------------------ C2
ChainOrder == <<"finnhub", "twelvedata", "alphavantage", "fallback">>

\* C2: on a cache miss the sources are attempted one after another in the
\* order Finnhub, Twelve Data, Alpha Vantage, synthetic fallback: the sources
\* invoked so far are a prefix of that order (so none is invoked twice), at
\* most the last one invoked has not handed back yet, every source before the
\* last invoked one failed (threw, absent, or invalid), and a source that
\* handed back a valid quote is the last one invoked and ends the call
SequentialChain ==
  \A c \in Callers :
    LET tr == call[c].trail
        rs == call[c].results
    IN /\ Len(tr) <= Len(ChainOrder)
       /\ \A i \in 1..Len(tr) : tr[i] = ChainOrder[i]
       /\ Len(rs) <= Len(tr) /\ Len(tr) <= Len(rs) + 1
       /\ \A i \in 1..Len(rs) :
            /\ i < Len(tr) => rs[i] = "failed"
            /\ rs[i] = "valid" => (i = Len(tr) /\ call[c].pc = "done")
       /\ (call[c].pc = "done" /\ tr # <<>>)
            => (tr[Len(tr)] = "fallback" \/ rs[Len(rs)] = "valid")

\* Finnhub failed and Twelve Data answered with a valid quote: the chain
\* stopped there
StoppedAtTwelveData ==
  \E c \in Callers :
    /\ call[c].pc = "done"
    /\ call[c].trail = <<"finnhub", "twelvedata">>
    /\ call[c].results = <<"failed", "valid">>
\* ------------------------------------------------------------ C3
PriceValid(q) == IsQuote(q) /\ q.price.k = "fin" /\ q.price.v > 0

\* C3: a quote obtained from a remote provider is returned by getCurrentPrice
\* or written to the cache only if it is valid (price > 0, finite, not NaN):
\* a completed call whose quote came from a remote source returned a valid
\* quote, and every cache entry holds a valid quote
OnlyValidQuotesLeave ==
  /\ \A c \in Callers :
       (call[c].pc = "done" /\ call[c].trail # <<>>
          /\ call[c].trail[Len(call[c].trail)] # "fallback")
         => PriceValid(call[c].ret)
  /\ \A key \in DOMAIN cache : PriceValid(cache[key].data)

\* ------------------------------------------------------------ C4
\* the quote last stored for S was stored with a TTL that has not run out
HoldsUnexpired(S) ==
  /\ CacheKey(S) \in DOMAIN lastSet
  /\ now <= lastSet[CacheKey(S)].time + (lastSet[CacheKey(S)].ttl * MsPerSecond)

\* the step is a getCurrentPrice call entering slot c
CallEnters(c) == FreeSlot(c) /\ callsLeft' = callsLeft - 1

\* C4: while the cache holds an unexpired quote for S, a getCurrentPrice(S)
\* call returns that stored quote unchanged, within the calling step, and
\* invokes no remote provider and no synthetic fallback
CacheHitServes ==
  [][\A c \in Callers, S \in asked :
       (CallEnters(c) /\ HoldsUnexpired(S))
         => /\ call'[c].pc = "done"
            /\ call'[c].sym = S
            /\ call'[c].ret = lastSet[CacheKey(S)].data
            /\ call'[c].trail = <<>> /\ call'[c].results = <<>>
            /\ cache' = cache /\ fhCache' = fhCache /\ lastSet' = lastSet]_vars

\* a quote stored with a TTL of 5 s is served from the cache 2 s later
ServedTwoSecondsLater ==
  \E c \in Callers :
    LET S == call[c].sym
    IN /\ call[c].pc = "done" /\ call[c].trail = <<>>
       /\ callsLeft = 0
       /\ CacheKey(S) \in DOMAIN lastSet
       /\ lastSet[CacheKey(S)].ttl = 5
       /\ now = lastSet[CacheKey(S)].time + 2000
       /\ call[c].ret = lastSet[CacheKey(S)].data

\* ------------------------------------------------------------ C6
\* the step completes call c with a valid quote of a remote provider
RemoteSuccess(c) ==
  /\ call'[c] # call[c]
  /\ call'[c].pc = "done"
  /\ call'[c].last = "valid"

ClaimedTtl(p) ==
  CASE p = "finnhub" -> 3
    [] p = "twelvedata" -> 5
    [] p = "alphavantage" -> 10

\* a step that completes a call with a remote provider's valid quote stores
\* that quote under prefix<S>, whichever provider answered, with an expiry of
\* 3 s (Finnhub), 5 s (Twelve Data) or 10 s (Alpha Vantage) from that instant,
\* and touches no other key
StoresUnder(prefix) ==
     \A c \in Callers :
       RemoteSuccess(c)
         => LET key == prefix \o call'[c].sym
                p == call'[c].trail[Len(call'[c].trail)]
            IN /\ p \in {"finnhub", "twelvedata", "alphavantage"}
               /\ key \in DOMAIN cache'
               /\ cache'[key] = [data |-> call'[c].ret,
                                 expiry |-> now + (ClaimedTtl(p) * 1000)]
               /\ \A k \in DOMAIN cache' : k # key => (k \in DOMAIN cache /\ cache'[k] = cache[k])
               /\ ClaimedTtl("finnhub") <= ClaimedTtl("twelvedata")
               /\ ClaimedTtl("twelvedata") <= ClaimedTtl("alphavantage")

\* C6 as amended: a remote provider's valid quote for S is stored under the
\* single provider-independent key enhanced:<S>, with a TTL of 3 s (Finnhub),
\* 5 s (Twelve Data) or 10 s (Alpha Vantage), nondecreasing along the chain
RemoteQuoteStoredUnderEnhancedKey == [][StoresUnder("enhanced:")]_vars

\* C6 as stated: the key is price:<S>
RemoteQuoteStoredUnderPriceKey == [][StoresUnder("price:")]_vars

\* Alpha Vantage answered with a valid quote, now held for 10 s
AlphaQuoteHeldTenSeconds ==
  \E c \in Callers :
    LET key == "enhanced:" \o call[c].sym
    IN /\ call[c].pc = "done" /\ call[c].last = "valid"
       /\ call[c].trail = <<"finnhub", "twelvedata", "alphavantage">>
       /\ key \in DOMAIN cache
       /\ cache[key].data = call[c].ret
       /\ cache[key].expiry = now + 10000

\* ------------------------------------------------------------ C7
\* the instruments the bulk call brought a quote for
Covered == {S \in Symbols : bulk.fh[S] # Null /\ bulk.fh[S] # Pending}

\* C7: getAllPrices makes exactly one bulk call, and no per-symbol call while
\* it is out; once the bulk result is in, getAllPrices has returned it and
\* run no per-symbol chain if the result covers 5 or more of the 7
\* instruments, and otherwise it has called getCurrentPrice for every one of
\* the 7 instruments
BulkFirst ==
  /\ bulk.pc # "idle" => bulk.bulkCalls = 1
  /\ bulk.pc \in {"idle", "bulk"} => \A i \in Slots : call[i].pc = "idle"
  /\ bulk.pc \in {"chains", "done"} =>
       IF Cardinality(Covered) >= 5
       THEN /\ bulk.pc = "done"
            /\ bulk.ret = [S \in Covered |-> bulk.fh[S]]
            /\ \A i \in Slots : call[i].pc = "idle"
       ELSE /\ \A i \in Slots : call[i].pc # "idle" /\ call[i].sym = symbols[i]
            /\ bulk.pc = "done" => bulk.ret # [S \in Covered |-> bulk.fh[S]]

\* the bulk call covered exactly 5 instruments and its result was returned
FiveCoveredReturned ==
  /\ bulk.pc = "done"
  /\ Cardinality(Covered) = 5
  /\ DOMAIN bulk.ret = Covered

\* ------------------------------------------------------------ C8
\* C8: in the per-symbol fallback of getAllPrices the seven calls are all
\* started before any of them is waited for, getAllPrices returns as soon as
\* all seven have completed and never ends otherwise, and whatever failed
\* inside the chains the returned map holds, for each of the 7 instruments,
\* the valid quote that instrument's own call returned
ChainsAllQuoted ==
  /\ bulk.pc \in {"idle", "bulk", "chains", "done"}
  /\ bulk.pc = "chains" =>
       /\ \A i \in Slots : call[i].pc # "idle"
       /\ \E i \in Slots : call[i].pc # "done"
  /\ (bulk.pc = "done" /\ \E i \in Slots : call[i].pc # "idle") =>
       /\ \A i \in Slots : call[i].pc = "done"
       /\ DOMAIN bulk.ret = Symbols
       /\ \A S \in Symbols :
            /\ PriceValid(bulk.ret[S])
            /\ bulk.ret[S].symbol = S
            /\ bulk.ret[S] = call[Index(S)].ret

\* the fallback ran; every source failed for one instrument, a remote source
\* other than Finnhub quoted another, and the map has all seven
SomeFailedAllQuoted ==
  /\ bulk.pc = "done"
  /\ DOMAIN bulk.ret = Symbols
  /\ \E i \in Slots, j \in Slots :
       /\ call[i].pc = "done" /\ call[i].trail = ChainOrder
       /\ call[j].pc = "done" /\ call[j].last = "valid" /\ Len(call[j].trail) >= 2

\* ------------------------------------------------------------ C9
AttemptTtl(p) ==
  CASE p = "finnhub" -> 3
    [] p = "twelvedata" -> 5
    [] p = "alphavantage" -> 10
    [] p = "fallback" -> 2

\* C9: however concurrent getCurrentPrice calls for one symbol interleave,
\* the cache entry of the symbol is absent or is one complete valid quote,
\* the one a single attempt produced, held with the expiry of that same
\* attempt (the instant of the attempt plus the TTL of its source)
CacheEntryWhole ==
  \A key \in DOMAIN cache :
    /\ key \in DOMAIN lastSet
    /\ isValidPrice(cache[key].data)
    /\ ReturnedQuoteUsable(cache[key].data)
    /\ cache[key].data = lastSet[key].data
    /\ lastSet[key].time <= now
    /\ cache[key].expiry = lastSet[key].time + (AttemptTtl(lastSet[key].by) * 1000)

\* two calls for one symbol raced: both missed the cache, different sources
\* answered them at different instants, and the entry is the later one's
RacingCallsBothStored ==
  \E c \in Callers, d \in Callers :
    LET key == CacheKey(call[c].sym)
    IN /\ c # d
       /\ call[c].pc = "done" /\ call[d].pc = "done"
       /\ call[c].trail # <<>> /\ call[d].trail # <<>>
       /\ call[c].ret # call[d].ret
       /\ key \in DOMAIN cache
       /\ cache[key].data = call[d].ret
       /\ lastSet[key].by # call[c].trail[Len(call[c].trail)]
       /\ cache[key].expiry > 2000
\* ------------------------------------------------------------ C5
\* the step is a getCache(key) of the cache exercise
ReadStep == probe'.n = probe.n + 1

\* the latest set of key, at time t with TTL ttl, has its expiry t + ttl ahead
\* of the clock or at it
WithinTtl(key) ==
  /\ key \in DOMAIN lastSet
  /\ now <= lastSet[key].time + (lastSet[key].ttl * 1000)

\* C5: after set(key, value, ttl) at time t, a get(key) at any time up to
\* t + ttl returns value and leaves the map alone; a get(key) past t + ttl
\* returns absent and leaves the map without the entry, so that a later
\* get(key) with no set in between returns absent too
TtlExpiry ==
  [][\A S \in asked :
       LET key == CacheKey(S)
       IN ReadStep
            => IF WithinTtl(key)
               THEN probe'.val = lastSet[key].data /\ cache' = cache
               ELSE probe'.val = Null /\ key \notin DOMAIN cache']_vars

\* a value was stored, read back, and a read past its expiry found it absent
\* and removed it
ReadPastExpiryRemoved ==
  \E key \in DOMAIN lastSet :
    /\ probe.n >= 2 /\ probe.val = Null
    /\ now > lastSet[key].time + (lastSet[key].ttl * 1000)
    /\ key \notin DOMAIN cache
\* ------------------------------------------------------------ C10
\* C10: an analysis request that names a symbol outside the fixed instrument
\* set is answered with a caller-input error, and neither getCurrentPrice (and
\* with it any quote provider) nor the analysis backend has been invoked for it
UnknownSymbolRejected ==
  (req.pc # "idle" /\ req.symbol # NoSymbol /\ req.symbol \notin Symbols)
    => /\ req.pc = "responded"
       /\ req.sent \in {"400", "404", "analysisError"}
       /\ ~req.backend
       /\ call[ReqSlot].pc = "idle"
\* ------------------------------------------------------------ C11
\* C11: an analysis request whose query or symbol is missing is answered at
\* once with a caller-input error, and neither getCurrentPrice (and with it
\* any quote provider) nor the analysis backend has been invoked for it,
\* whichever way the request came in
MissingInputRejected ==
  (req.pc # "idle" /\ (~req.query \/ req.symbol = NoSymbol))
    => /\ req.pc = "responded"
       /\ req.sent \in {"400", "analysisError"}
       /\ ~req.backend
       /\ call[ReqSlot].pc = "idle"
\* ------------------------------------------------------------ C12
\* an analyzeMarket invocation has been made, and it took the single path
SingleMode ==
  /\ ai.run.pc # "idle"
  /\ ~(ai.run.request.preferredProvider = "both" \/ ai.run.request.compareResults)
OtherRemote(provider) == IF provider = "claude" THEN "deepseek" ELSE "claude"
\* C12: in single mode the list of backends to try is <<preferred, the other
\* remote backend, local, driver>> when claude or deepseek is named, and in every case,
\* whatever setProviderPriority calls came before, it ends with local
OrderEndsWithLocal ==
  SingleMode =>
    LET preferred == ai.run.request.preferredProvider
        providers == ai.run.providers
    IN /\ preferred \in {"claude", "deepseek"}
            => providers = <<preferred, OtherRemote(preferred), "local">>
       /\ providers # <<>>
       /\ providers[Len(providers)] = "local"
\* ------------------------------------------------------------ C13
\* the callProvider invocations that wait for their API
InFlightCalls == {p \in AIProviders : ai.run.calls[p].pc = "api"}
\* C13: in single mode the backends are attempted one at a time in the order of
\* the list, each only after every earlier one failed; the first attempt that
\* succeeds ends the chain: its backend is the result's provider, its value the
\* result's primary, no later backend is invoked, and fallbackUsed says
\* whether it was not the first of the list
SingleStopsAtFirstSuccess ==
  SingleMode =>
    LET run == ai.run
        n == Len(run.attempts)
    IN /\ Len(run.tried) <= Len(run.providers)
       /\ run.tried = SubSeq(run.providers, 1, Len(run.tried))
       /\ Cardinality(InFlightCalls) <= 1
       /\ Len(run.tried) = n + Cardinality(InFlightCalls)
       /\ \A i \in 1..n :
            /\ run.attempts[i].provider = run.providers[i]
            /\ i < Len(run.tried) => ~run.attempts[i].result.ok
            /\ run.attempts[i].result.ok
                 => /\ run.pc = "done"
                    /\ run.outcome.ok
                    /\ run.outcome.value.provider = run.providers[i]
                    /\ run.outcome.value.primary = run.attempts[i].result.value
                    /\ run.outcome.value.fallbackUsed = (i > 1)
       /\ (run.pc = "done" /\ run.outcome.ok) => (n > 0 /\ run.attempts[n].result.ok)
\* the second backend of three succeeded after the first failed
SecondBackendAnswered ==
  /\ SingleMode
  /\ ai.run.pc = "done"
  /\ ai.run.outcome.ok
  /\ Len(ai.run.providers) = 3
  /\ Len(ai.run.tried) = 2
  /\ ai.run.outcome.value.provider = ai.run.providers[2]
  /\ ai.run.outcome.value.fallbackUsed
\* ------------------------------------------------------------ C14
\* C14: a finished single-mode analyzeMarket has rejected exactly when every
\* backend of the order was attempted and failed, and then the error names the
\* error of the last backend attempted; otherwise it has returned a result,
\* which is the successful backend's answer and carries no error of the
\* backends that failed before it
SingleFailsIffAllFailed ==
  (SingleMode /\ ai.run.pc = "done") =>
    LET run == ai.run
        n == Len(run.attempts)
        allFailed == /\ n = Len(run.providers)
                     /\ \A i \in 1..n : ~run.attempts[i].result.ok
    IN /\ ~run.outcome.ok <=> allFailed
       /\ (~run.outcome.ok /\ n > 0)
            => run.outcome.message
                 = "All AI providers failed. Last error: " \o run.attempts[n].result.message
       /\ run.outcome.ok
            => /\ run.outcome.message = ""
               /\ run.outcome.value.primary = run.attempts[n].result.value
               /\ run.outcome.value.secondary = Null
\* all three backends failed and analyzeMarket rejected
AllThreeFailed ==
  /\ SingleMode
  /\ ai.run.pc = "done"
  /\ ~ai.run.outcome.ok
  /\ Len(ai.run.attempts) = 3
  /\ ai.run.attempts[3].provider = "local"
\* ------------------------------------------------------------ C15
\* C15: an attempt on claude or deepseek whose API request threw, or was
\* answered without text or with text that is not JSON, has failed: it handed
\* no result to the chain or to the comparison
RemoteFailureFailsAttempt ==
  \A i \in 1..Len(ai.run.attempts) :
    LET attempt == ai.run.attempts[i]
    IN (attempt.provider \in {"claude", "deepseek"}
          /\ attempt.answered \in {"throw", "nocontent", "text"})
         => ~attempt.result.ok
\* ------------------------------------------------------------ C16
\* C16: an attempt on the local backend sends no request to a remote API and
\* returns a result whose source is the local analyzer, with or without API
\* keys
LocalNeverRemoteNeverFails ==
  /\ \A i \in 1..Len(ai.run.remote) : ai.run.remote[i].provider # "local"
  /\ \A i \in 1..Len(ai.run.attempts) :
       LET attempt == ai.run.attempts[i]
       IN attempt.provider = "local"
            => /\ attempt.answered = "unasked"
               /\ attempt.result.ok
               /\ attempt.result.value.source = "enhanced-local-analysis"
\* ------------------------------------------------------------ C17
\* an analyzeMarket invocation has been made, and it took the comparative path
ComparativeMode ==
  /\ ai.run.pc # "idle"
  /\ (ai.run.request.preferredProvider = "both" \/ ai.run.request.compareResults)
\* the remote backend `provider` failed in this run: it has no API key, its
\* API request threw or was answered with nothing that parses, or callProvider
\* threw or handed back an object that reports an error
RemoteFailed(provider) ==
  \E i \in 1..Len(ai.run.attempts) :
    /\ ai.run.attempts[i].provider = provider
    /\ \/ ai.run.attempts[i].answered \in {"unasked", "throw", "nocontent", "text"}
       \/ ~Succeeded(Caught(ai.run.attempts[i].result))
\* C17: a comparative analyzeMarket in which both claude and deepseek failed
\* returns a result whose primary comes from the local analyzer, without
\* secondary and without comparison
BothFailedLocalPrimary ==
  (ComparativeMode /\ ai.run.pc = "done" /\ RemoteFailed("claude") /\ RemoteFailed("deepseek"))
    => /\ ai.run.outcome.ok
       /\ ai.run.outcome.value.primary.source = "enhanced-local-analysis"
       /\ ai.run.outcome.value.secondary = Null
       /\ ai.run.outcome.value.comparison = Null
\* ------------------------------------------------------------ C18
\* the result callProvider(provider) returned
SettledValue(provider) == ai.run.calls[provider].result.value
\* callProvider(provider) returned, and what it returned reports no error
RemoteSucceeded(provider) ==
  /\ ai.run.calls[provider].result.ok
  /\ ~ai.run.calls[provider].result.value.error
BothSettled ==
  ai.run.calls["claude"].pc = "settled" /\ ai.run.calls["deepseek"].pc = "settled"
Compared == comparison # Null /\ comparison.result # Null
Bit(b) == IF b THEN 1 ELSE 0
Distance(x, y) == IF x >= y THEN x - y ELSE y - x
\* the recommendation of analysis x mentions `word`, in any case
Mentions(x, word) ==
  x.recommendation.t = "text" /\ Includes(ToLowerCase(x.recommendation.v), word)
RecommendationsAgree(x, y) ==
  \E word \in {Chars("buy"), Chars("sell"), Chars("hold")} : Mentions(x, word) /\ Mentions(y, word)
\* the entry levels of x and y are numbers less than 0.01 apart, a missing
\* entry level counting as 0
EntryAsNumber(x) == IF x.entry.t = "missing" THEN Numeral(0) ELSE x.entry
EntriesClose(x, y) ==
  /\ EntryAsNumber(x).t = "numeral"
  /\ EntryAsNumber(y).t = "numeral"
  /\ Distance(EntryAsNumber(x).v, EntryAsNumber(y).v) < EntryTolerance
Score(match, diff, close) ==
  50 * Bit(match) + 25 * Bit(diff <= 2) + 15 * Bit(diff <= 1) + 10 * Bit(close)
Bucket(agreement) ==
  IF agreement >= 80 THEN "Alto consenso entre modelos de IA"
  ELSE IF agreement >= 60 THEN "Consenso moderado"
  ELSE IF agreement >= 40 THEN "Consenso parcial"
  ELSE "Bajo consenso"
\* what compareAnalyses returned is what the score of (match, diff, close) gives
ResultIs(match, diff, close) ==
  /\ comparison.result.agreement = Score(match, diff, close)
  /\ comparison.result.agreement \in 0..100
  /\ comparison.result.recommendationMatch = match
  /\ comparison.result.confidenceDiff = Fin(diff)
  /\ comparison.result.summary = Bucket(comparison.result.agreement)

ConfidenceOrFive(x) ==
  IF x.confidence.k = "fin" /\ x.confidence.v # 0 THEN x.confidence.v ELSE 5
AgreementMonotone ==
  Compared =>
    LET claude == comparison.claude
        deepseek == comparison.deepseek
        result == comparison.result
    IN /\ \A r1 \in Recommendations, r2 \in Recommendations :
            LET other == compareAnalyses([claude EXCEPT !.recommendation = r1],
                                         [deepseek EXCEPT !.recommendation = r2])
            IN (~result.recommendationMatch /\ other.recommendationMatch)
                 => other.agreement >= result.agreement
       /\ \A c1 \in Confidences, c2 \in Confidences :
            LET other == compareAnalyses([claude EXCEPT !.confidence = c1],
                                         [deepseek EXCEPT !.confidence = c2])
            IN other.confidenceDiff.v <= result.confidenceDiff.v
                 => other.agreement >= result.agreement
       /\ (claude.recommendation.t = "text"
             /\ claude.recommendation = deepseek.recommendation
             /\ result.confidenceDiff = Fin(0))
            => result.agreement >= 90
\* ------------------------------------------------------------ C21
\* calculateRSI has returned
HasReturned(method) ==
  indicator # Null /\ indicator.method = method /\ indicator.pc = "returned"
RSIDone == HasReturned("calculateRSI")

RECURSIVE Total(_)
\* the sum of a sequence of numbers
Total(numbers) ==
  IF numbers = <<>> THEN 0 ELSE numbers[1] + Total(Tail(numbers))

\* the first `period` price differences of a series, and the last `period`
LeadingDeltas(prices, period) == [i \in 1..period |-> prices[i + 1] - prices[i]]
TrailingDeltas(prices, period) ==
  [i \in 1..period |-> prices[(Len(prices) - period) + i] - prices[(Len(prices) - period) + i - 1]]

GainOf(deltas) == Total([i \in DOMAIN deltas |-> IF deltas[i] > 0 THEN deltas[i] ELSE 0])
LossOf(deltas) == Total([i \in DOMAIN deltas |-> IF deltas[i] < 0 THEN 0 - deltas[i] ELSE 0])

\* rsi, in units of 0.01, is 100 - 100 / (1 + avgGain / avgLoss) for these
\* deltas, which is 100 * gain / (gain + loss): exactly, and to the nearest 0.01
IsExactRSIOf(rsi, deltas) ==
  rsi * (GainOf(deltas) + LossOf(deltas)) = 10000 * GainOf(deltas)
IsRoundedRSIOf(rsi, deltas) ==
  LET off == (rsi * (GainOf(deltas) + LossOf(deltas))) - (10000 * GainOf(deltas))
  IN  2 * off <= GainOf(deltas) + LossOf(deltas) /\ 2 * (0 - off) <= GainOf(deltas) + LossOf(deltas)

RSIUsesTrailingDeltas ==
  (RSIDone /\ Len(indicator.prices) >= indicator.period + 1) =>
    IF LossOf(TrailingDeltas(indicator.prices, indicator.period)) = 0
    THEN indicator.result = 10000
    ELSE IsRoundedRSIOf(indicator.result, TrailingDeltas(indicator.prices, indicator.period))

\* ------------------------------------------------------------ C23
\* calculateRSI has returned for the worked example
ExampleDone ==
  RSIDone /\ indicator.prices = ExampleCloses /\ indicator.period = ExamplePeriod

\* C23: calculateRSI of the fifteen example closes with period 14 is strictly
\* greater than 60 and strictly less than 75.
ExampleRSIBetween60And75 ==
  ExampleDone => (indicator.result > 6000 /\ indicator.result < 7500)

\* the example has been computed: 5.14 of gains against 3.14 of losses
ExampleRSIComputed ==
  /\ ExampleDone
  /\ GainOf(LeadingDeltas(ExampleCloses, ExamplePeriod)) = 51400
  /\ LossOf(LeadingDeltas(ExampleCloses, ExamplePeriod)) = 31400
  /\ indicator.result = 6208

\* ------------------------------------------------------------ C24
MACDDone == HasReturned("calculateMACD")

\* C24: the triple calculateMACD returns satisfies histogram = macd - signal
\* exactly, on the values returned.
HistogramIsMacdLessSignal ==
  MACDDone => indicator.result.histogram = indicator.result.macd - indicator.result.signal

\* ------------------------------------------------------------ C25
VWAPDone == HasReturned("calculateVWAP")
\* calculateVWAP has returned for a single bar with some volume
SingleBarDone ==
  VWAPDone /\ Len(indicator.ohlcData) = 1 /\ indicator.ohlcData[1].volume > 0
\* high + low + close of the single bar: three times its typical price
TypicalPrice3 ==
  indicator.ohlcData[1].high + indicator.ohlcData[1].low + indicator.ohlcData[1].close
\* calculateVWAP returned 0 for no bar and for bars of no volume
VWAPZeroWithoutVolume ==
  (VWAPDone /\ \A i \in 1..Len(indicator.ohlcData) : indicator.ohlcData[i].volume = 0)
    => indicator.result = 0

BandsDone == HasReturned("calculateBollingerBands") /\ Len(indicator.prices) > 0
\* the window: the last `period` prices, or all if there are fewer
BandWindow ==
  SubSeq(indicator.prices,
         IF Len(indicator.prices) > indicator.period
         THEN (Len(indicator.prices) - indicator.period) + 1 ELSE 1,
         Len(indicator.prices))
\* n times the mean of the window, and n * n times its population variance
WindowSum == Total(BandWindow)
WindowSpread ==
  (Len(BandWindow) * Total([i \in DOMAIN BandWindow |-> BandWindow[i] * BandWindow[i]]))
    - (WindowSum * WindowSum)
BandsOrdered ==
  /\ indicator.result.upper >= indicator.result.middle
  /\ indicator.result.middle >= indicator.result.lower

NearestBand(x, sign, S, D, n) ==
  LET A == (2 * n * x) - (2 * S)
      lo == IF sign > 0 THEN A - n ELSE 0 - (A + n)   \* the bound next to zero or below
      hi == IF sign > 0 THEN A + n ELSE 0 - (A - n)
  IN  IF sign > 0
      THEN (lo <= 0 \/ lo * lo <= 16 * D) /\ (hi > 0 /\ 16 * D < hi * hi)
      ELSE (hi >= 0 /\ 16 * D <= hi * hi) /\ (lo < 0 \/ lo * lo < 16 * D)

Synthesized ==
  history # Null /\ history.last # Null /\ history.last.service = "first" /\ ~history.last.hit
Greater(a, b) == IF a >= b THEN a ELSE b
Smaller(a, b) == IF a <= b THEN a ELSE b

\* C27: every bar of a synthesized series has high >= max(open, close) and
\* low <= min(open, close), whatever the symbol, the length asked for and the
\* outcome of the random walk.
BarsWellFormed ==
  Synthesized =>
    \A i \in 1..Len(history.last.series.bars) :
      LET bar == history.last.series.bars[i]
      IN  /\ bar.high >= Greater(bar.open, bar.close)
          /\ bar.low <= Smaller(bar.open, bar.close)

\* a series of MaxBars bars whose last bar has its high above and its low
\* below both its open and its close
WideBarSynthesized ==
  /\ Synthesized
  /\ Len(history.last.series.bars) = MaxBars
  /\ LET bar == history.last.series.bars[MaxBars]
     IN  /\ bar.high > Greater(bar.open, bar.close)
         /\ bar.low < Smaller(bar.open, bar.close)
         /\ bar.open # bar.close

\* ------------------------------------------------------------ C28
\* getHistoricalData of either service has returned
HistoryReturned == history # Null /\ history.last # Null

\* C28: getHistoricalData(symbol, timeframe, n) returns exactly n bars with
\* strictly increasing timestamps, on a cache miss as well as on a cache hit.
ReturnsNBarsInOrder ==
  HistoryReturned =>
    LET bars == history.last.series.bars
    IN  /\ Len(bars) = history.last.request.outputsize
        /\ \A i \in 1..(Len(bars) - 1) : bars[i].timestamp < bars[i + 1].timestamp

\* ------------------------------------------------------------ C29
\* the rule engine has answered
LocalAnswered == local # Null /\ local.result # Null
\* the text begins with the word, then " - " and a qualifier
BeginsWith(text, word) ==
  /\ Len(text) > Len(word) + 3
  /\ SubSeq(text, 1, Len(word)) = word
  /\ SubSeq(text, Len(word) + 1, Len(word) + 3) = <<" ", "-", " ">>
Verdicts == {<<"B", "U", "Y">>, <<"S", "E", "L", "L">>, <<"H", "O", "L", "D">>, <<"W", "A", "I", "T">>}

SpecUnanswered == Init /\ [][Next]_vars /\ WF_vars(Tick)

\* call c waits for the response to one of its provider requests
AwaitsUpstream(c) == call[c].pc \in {"finnhubHttp", "twelveHttp", "alphaHttp"}

\* C30: every provider attempt is bounded by a timeout, so that a
\* getCurrentPrice that waits for a provider eventually returns even if that
\* provider never answers.
GetCurrentPriceReturns ==
  \A c \in Callers : AwaitsUpstream(c) ~> (call[c].pc = "done")

\* ------------------------------------------------------------ C31
\* the series last synthesized for the same symbol, timeframe and length is
\* no older than 300 seconds
KeptFor(request) ==
  /\ request \in DOMAIN history.made
  /\ now <= history.made[request].at + (HistoryTtl * MsPerSecond)
\* C31: bar series are cached per (symbol, timeframe, length) for 300 seconds.
\* A call of getHistoricalData whose three arguments are those of a call that
\* synthesized a series within the last 300 seconds returns that very series
\* and synthesizes none; every other call (no earlier call had the same three
\* arguments, or the series made for them is older) returns a series that it
\* synthesizes itself.
SeriesCachedPerArguments ==
  [][(history # Null /\ history'.request = history.request /\ now' = now)
       => LET request == history.request
          IN  IF KeptFor(request)
              THEN /\ history'.last =
                        HistoryReturn("first", request, TRUE, history.made[request].series)
                   /\ history'.synthesized = history.synthesized
              ELSE /\ history'.last.hit = FALSE
                   /\ history'.synthesized = history.synthesized + 1]_vars
\* ------------------------------------------------------------ C32
\* the duration of a timeframe in ms
DurationOf(timeframe) ==
  CASE timeframe = "1H" -> 60 * 60 * MsPerSecond
    [] timeframe = "1D" -> 24 * 60 * 60 * MsPerSecond
\* C32: in a series synthesized for (symbol, timeframe, length) each bar is
\* later than the bar before it by exactly the duration of the requested
\* timeframe, for every requested timeframe.
BarsSpacedByTimeframe ==
  Synthesized
    => LET bars == history.last.series.bars
       IN  \A i \in 1..(Len(bars) - 1) :
             bars[i + 1].timestamp - bars[i].timestamp
               = DurationOf(history.last.request.timeframe)
\* ------------------------------------------------------------ C33
LocalLevelsSet == LocalAnswered /\ local.result.ok /\ local.levels # Null
Buy == <<"B", "U", "Y">>
Sell == <<"S", "E", "L", "L">>
\* C33: the risk levels of the local analyzer follow from the current price:
\* support and resistance are the price less and plus 0.5%, entry is the price
\* plus 0.1% after a rise and less 0.1% after a fall, stop-loss and
\* take-profit lie on opposite sides of the price (BUY: stopLoss < price <
\* takeProfit; SELL: takeProfit < price < stopLoss), and the distance of
\* take-profit from the price is 2.5 to 3 times that of stop-loss. Levels are
\* compared as printed (4 decimals, 2 for JPY), the ratio up to that rounding.
LocalRiskLevels ==
  LocalLevelsSet =>
    LET price == local.request.marketData.price.v
        changePercent == local.request.marketData.changePercent
        step == IF IncludesJPY(local.request.symbol) THEN 1000 ELSE 10
        recommendation == local.result.value.recommendation.v
        levels == local.levels
        risk == AbsNum(Fin(levels.stopLoss.v - price)).v
        reward == AbsNum(Fin(levels.takeProfit.v - price)).v
    IN  /\ levels.support = Level(price, -1, 500, step)
        /\ levels.resistance = Level(price, 1, 500, step)
        /\ Above(changePercent, 0) => levels.entry = Level(price, 1, 100, step)
        /\ Below(changePercent, 0) => levels.entry = Level(price, -1, 100, step)
        /\ BeginsWith(recommendation, Buy)
             => levels.stopLoss.v < price /\ price < levels.takeProfit.v
        /\ BeginsWith(recommendation, Sell)
             => levels.takeProfit.v < price /\ price < levels.stopLoss.v
        /\ (BeginsWith(recommendation, Buy) \/ BeginsWith(recommendation, Sell))
             => /\ 4 * reward >= (10 * risk) - (7 * step)
                /\ reward <= (3 * risk) + (2 * step)
\* ------------------------------------------------------------ C34
\* calculateFibonacci has returned for at least one bar
FibonacciDone == HasReturned("calculateFibonacci") /\ Len(indicator.ohlcData) > 0
MaxClose == MaxOf([i \in DOMAIN indicator.ohlcData |-> indicator.ohlcData[i].close])
MinClose == MinOf([i \in DOMAIN indicator.ohlcData |-> indicator.ohlcData[i].close])
LevelsOrdered ==
  /\ MinClose <= indicator.result.level618
  /\ indicator.result.level618 <= indicator.result.level50
  /\ indicator.result.level50 <= indicator.result.level382
  /\ indicator.result.level382 <= MaxClose
\* 1000 times: the highest close less the given thousandths of the range of
\* the closes
Retracement(thousandths) == (1000 * MaxClose) - (thousandths * (MaxClose - MinClose))
\* the level is the 4-decimal value nearest the retracement
NearestLevel(level, thousandths) ==
  /\ 2 * ((1000 * level) - Retracement(thousandths)) <= 1000
  /\ 2 * (Retracement(thousandths) - (1000 * level)) <= 1000

QuoteNamesRequestedSymbol ==
  /\ \A c \in Callers :
       (call[c].pc = "done" /\ IsQuote(call[c].ret)) => call[c].ret.symbol = call[c].sym
  /\ \A S \in AnySymbol :
       CacheKey(S) \in DOMAIN cache => cache[CacheKey(S)].data.symbol = S
\* ------------------------------------------------------------ C36
\* C36: in single mode the backend a result names is the backend that
\* produced it: with provider 'claude' or 'deepseek' the primary analysis
\* carries the source of that backend's API, and the primary analysis carries
\* the source of the local analyzer exactly when the result was obtained from
\* the 'local' position of the chain.
ProviderIsProducer ==
  (SingleMode /\ ai.run.pc = "done" /\ ai.run.outcome.ok)
    => LET result == ai.run.outcome.value
       IN  /\ result.provider = "claude" => result.primary.source = "claude-api"
           /\ result.provider = "deepseek" => result.primary.source = "deepseek-api"
           /\ result.primary.source = "enhanced-local-analysis" <=> result.provider = "local"
\* ------------------------------------------------------------ C37
\* a comparative analyzeMarket has returned a result
ComparativeReturned == ComparativeMode /\ ai.run.pc = "done" /\ ai.run.outcome.ok
\* C37: in every result of a comparative analyzeMarket the provider is
\* 'claude+deepseek' exactly when a comparison is present, fallbackUsed is
\* true exactly when it is absent, and a secondary analysis is present
\* exactly when a comparison is.
ComparisonFlagsAgree ==
  ComparativeReturned
    => LET result == ai.run.outcome.value
       IN  /\ result.provider = "claude+deepseek" <=> result.comparison # Null
           /\ result.fallbackUsed <=> result.comparison = Null
           /\ result.secondary # Null <=> result.comparison # Null
\* both remote backends succeeded and the result carries their comparison
ComparedResultReturned ==
  /\ ComparativeReturned
  /\ ai.run.outcome.value.comparison # Null
  /\ ai.run.outcome.value.primary.source = "claude-api"
  /\ ai.run.outcome.value.secondary.source = "deepseek-api"
\* ------------------------------------------------------------ C38
\* C38: compareAnalyses is symmetric: for every two analyses a and b,
\* compareAnalyses(a, b) and compareAnalyses(b, a) give the same agreement,
\* recommendationMatch, confidenceDiff and summary.
CompareSymmetric ==
  Compared
    => LET swapped == compareAnalyses(comparison.deepseek, comparison.claude)
       IN  /\ comparison.result.agreement = swapped.agreement
           /\ comparison.result.recommendationMatch = swapped.recommendationMatch
           /\ comparison.result.confidenceDiff = swapped.confidenceDiff
           /\ comparison.result.summary = swapped.summary
\* two analyses that differ in recommendation, confidence and entry level
\* have been compared
UnequalPairCompared ==
  /\ Compared
  /\ comparison.claude.recommendation = Text(Chars("BUY"))
  /\ comparison.deepseek.recommendation = Text(Chars("Sell"))
  /\ comparison.claude.confidence = Fin(MaxConfidence)
  /\ comparison.deepseek.confidence = Undefined
  /\ comparison.claude.entry = Numeral(108450)
  /\ comparison.deepseek.entry = Garbage
\* ------------------------------------------------------------ C39
\* the step stores an entry under the key of S, or replaces the one there
WritesEntry(S) ==
  /\ CacheKey(S) \in DOMAIN cache'
  /\ (CacheKey(S) \in DOMAIN cache => cache'[CacheKey(S)] # cache[CacheKey(S)])
\* the step stores, replaces or removes the entry under the key of S
TouchesEntry(S) ==
  \/ (CacheKey(S) \in DOMAIN cache) # (CacheKey(S) \in DOMAIN cache')
  \/ (CacheKey(S) \in DOMAIN cache /\ cache'[CacheKey(S)] # cache[CacheKey(S)])
\* the call of the per-symbol path for S returns in this step, having missed
\* the cache
ReturnsAfterMiss(S) ==
  /\ call[Index(S)].pc # "done"
  /\ call'[Index(S)].pc = "done"
  /\ call'[Index(S)].trail # <<>>
\* a step of getAllPrices on its bulk path: the call, a settling request of
\* the bulk call, the return of the bulk result; no per-symbol call is made
BulkPathStep ==
  /\ bulk.pc \in {"idle", "bulk"}
  /\ bulk'.pc \in {"bulk", "done"}
  /\ bulk' # bulk
  /\ \A i \in Slots : call'[i].pc = "idle"
DriverBroadcastsChanges ==
  /\ \A S \in DOMAIN driver.emitted :
       \/ driver.emitted[S].before = Null
       \/ /\ driver.emitted[S].quote.price.v - driver.emitted[S].before.price.v > PriceEpsilon
       \/ /\ driver.emitted[S].before.price.v - driver.emitted[S].quote.price.v > PriceEpsilon
  /\ DOMAIN driver.lastPriceUpdate = DOMAIN driver.emitted
  /\ \A S \in DOMAIN driver.emitted : driver.lastPriceUpdate[S] = driver.emitted[S].quote
  /\ driver.ticksAtStop # -1 => driver.ticks = driver.ticksAtStop
\* the driver was stopped after two firings, all their calls have returned;
\* one instrument had a second priceUpdate, another had its second quote held
\* back
DriverStoppedAfterUpdates ==
  /\ driver.ticksAtStop = 2
  /\ \A S \in Watched : driver.pending[S] = 0
  /\ \E S \in DOMAIN driver.emitted : driver.emitted[S].before # Null
  /\ \E S \in DOMAIN driver.emitted : driver.emitted[S].before = Null
====
